---- MODULE Spec2Model ----
(***************************************************************************)
(* lotus-weather: the orchestrator (LotusWeather), its TTL cache, the      *)
(* error classifier and the two providers, as a state machine.             *)
(*                                                                         *)
(* Strings of the program that are built, compared or normalised (cache    *)
(* keys, city names, provider ids) are sequences of one-character strings. *)
(* Time is Date.now() in milliseconds.                                     *)
(***************************************************************************)
EXTENDS Integers, Sequences, FiniteSets, TLC

VARIABLES
    config,     \* the LotusWeatherConfig the instance was constructed from
    ctorError,  \* message thrown by the constructor, "" when it returned
    store,      \* Cache.store: key -> CacheEntry, its domain the keys present
    now,        \* Date.now()
    pc,         \* per call: "idle" | "primary" | "fallback" | "done"
    req,        \* per call: the arguments of the public method called
    lookup,     \* per call: how its cache lookup went ("hit", "miss",
                \* "expired"), "bypass" when it made none
    primErr,    \* per call: the error caught from the primary provider
    fbErr,      \* per call: the error caught from the fallback provider
    nPrimary,   \* per call: invocations of operation(this.primaryProvider)
    nFallback,  \* per call: invocations of operation(this.fallbackProvider)
    nGeocode,   \* per call: geocoding requests sent on its behalf
    outcome,    \* per call: what the promise settled with
    issued,     \* number of public method calls made so far
    input,      \* the arguments of a function or method called on its own
    output      \* what that call returned

vars == <<config, ctorError, store, now, pc, req, lookup, primErr, fbErr,
          nPrimary, nFallback, nGeocode, outcome, issued, input, output>>

\* a function or method called on its own, outside the orchestrator
unit == <<input, output>>

----------------------------------------------------------------------------
(* Bounds of the model *)

\* Date.now() advances up to MaxTime
MaxTime == 2
\* calls made on a Cache used on its own
MaxOps == 3
\* public method calls made on the instance in one behaviour
MaxCalls == 2

\* concurrent calls in flight on one instance (promises not yet settled)
Calls == {1, 2}

----------------------------------------------------------------------------
(* Strings *)

OPEN_METEO == <<"o","p","e","n","-","m","e","t","e","o">>
OPENWEATHER == <<"o","p","e","n","w","e","a","t","h","e","r">>
NoProvider == <<>>
ProviderTypes == {OPEN_METEO, OPENWEATHER}

CURRENT == <<"c","u","r","r","e","n","t">>
FORECAST == <<"f","o","r","e","c","a","s","t">>
GEOCODING == <<"g","e","o","c","o","d","i","n","g">>

\* String.prototype.toLowerCase on one character
LowerChar(c) ==
    CASE c = "L" -> "l"
      [] c = "O" -> "o"
      [] c = "P" -> "p"
      [] c = "A" -> "a"
      [] OTHER -> c

toLowerCase(s) == [i \in 1..Len(s) |-> LowerChar(s[i])]

WhiteSpace == {" ", "\t", "\n"}

RECURSIVE trimStart(_)
trimStart(s) ==
    IF s # <<>> /\ Head(s) \in WhiteSpace THEN trimStart(Tail(s)) ELSE s

RECURSIVE trimEnd(_)
trimEnd(s) ==
    IF s # <<>> /\ s[Len(s)] \in WhiteSpace
    THEN trimEnd(SubSeq(s, 1, Len(s) - 1))
    ELSE s

\* String.prototype.trim
trim(s) == trimEnd(trimStart(s))

Digit(d) == CASE d = 0 -> "0" [] d = 1 -> "1" [] d = 2 -> "2" [] d = 3 -> "3"
              [] d = 4 -> "4" [] d = 5 -> "5" [] d = 6 -> "6" [] d = 7 -> "7"
              [] d = 8 -> "8" [] d = 9 -> "9"

\* String(n) for a non-negative integer n
RECURSIVE NatToString(_)
NatToString(n) ==
    IF n < 10 THEN <<Digit(n)>> ELSE NatToString(n \div 10) \o <<Digit(n % 10)>>

\* Array.prototype.join(":")
RECURSIVE join(_)
join(parts) ==
    IF Len(parts) = 0 THEN <<>>
    ELSE IF Len(parts) = 1 THEN parts[1]
    ELSE parts[1] \o <<":">> \o join(Tail(parts))

\* Number.prototype.toFixed(4) of x / 100000 (coordinates are given in
\* units of 0.00001 degree; values ending in 5 are not used as inputs, so
\* no half-way case arises)
toFixed4(x) ==
    LET a == IF x < 0 THEN -x ELSE x
        n == (a + 5) \div 10
        f == n % 10000
    IN  (IF x < 0 THEN <<"-">> ELSE <<>>)
        \o NatToString(n \div 10000) \o <<".">>
        \o <<Digit(f \div 1000), Digit((f \div 100) % 10),
             Digit((f \div 10) % 10), Digit(f % 10)>>

----------------------------------------------------------------------------
(* Cache (src/cache.ts) *)

DEFAULT_TTL == [current |-> 5 * 60 * 1000,
                forecast |-> 30 * 60 * 1000,
                geocoding |-> 24 * 60 * 60 * 1000]

\* an option that was not given (undefined)
Undefined == -1

\* new Cache(config) taking the given lifetimes in place of the defaults as
\* a whole
CacheTtl_noDefaults(ttlConfig) ==
    IF ttlConfig.current = Undefined /\ ttlConfig.forecast = Undefined
       /\ ttlConfig.geocoding = Undefined
    THEN DEFAULT_TTL
    ELSE [current |-> IF ttlConfig.current # Undefined
                      THEN ttlConfig.current ELSE 0,
          forecast |-> IF ttlConfig.forecast # Undefined
                       THEN ttlConfig.forecast ELSE 0,
          geocoding |-> IF ttlConfig.geocoding # Undefined
                        THEN ttlConfig.geocoding ELSE 0]

\* new Cache(config): this.ttl
CacheTtl(ttlConfig) ==
    [current   |-> IF ttlConfig.current # Undefined
                   THEN ttlConfig.current ELSE DEFAULT_TTL.current,
     forecast  |-> IF ttlConfig.forecast # Undefined
                   THEN ttlConfig.forecast ELSE DEFAULT_TTL.forecast,
     geocoding |-> IF ttlConfig.geocoding # Undefined
                   THEN ttlConfig.geocoding ELSE DEFAULT_TTL.geocoding]

\* every entry given the lifetime of current-weather entries
TtlOf_current(ttl, type) == ttl.current

\* this.ttl[type]
TtlOf(ttl, type) ==
    CASE type = CURRENT -> ttl.current
      [] type = FORECAST -> ttl.forecast
      [] type = GEOCODING -> ttl.geocoding

\* createKey that lower-cases the location but does not trim it
createKey_noTrim(provider, method, location, options) ==
    LET parts == <<provider, method, toLowerCase(location)>>
    IN  join(IF options # <<>> THEN Append(parts, options) ELSE parts)

\* Cache.createKey; options = <<>> when not given (or the empty string)
createKey(provider, method, location, options) ==
    LET parts == <<provider, method, trim(toLowerCase(location))>>
    IN  join(IF options # <<>> THEN Append(parts, options) ELSE parts)

\* Cache.get with the expiry test t >= expiresAt
CacheHit_strict(st, key, t) == key \in DOMAIN st /\ t < st[key].expiresAt

\* Cache.get: the value returned ("hit"), and the store it leaves
CacheHit(st, key, t) == key \in DOMAIN st /\ ~(t > st[key].expiresAt)

\* Cache.get leaving an expired entry where it is
CacheGetStore_noEvict(st, key, t) == st

\* Cache.get pushing back the expiry of the entry it returns
CacheGetStore_sliding(st, key, t) ==
    IF key \in DOMAIN st /\ t > st[key].expiresAt
    THEN [k \in DOMAIN st \ {key} |-> st[k]]
    ELSE IF key \in DOMAIN st
    THEN [st EXCEPT ![key].expiresAt = @ + 1]
    ELSE st

\* Cache.get removing every expired entry it comes across
CacheGetStore_sweep(st, key, t) ==
    [k \in {j \in DOMAIN st : ~(t > st[j].expiresAt)} |-> st[k]]

CacheGetStore(st, key, t) ==
    IF key \in DOMAIN st /\ t > st[key].expiresAt
    THEN [k \in DOMAIN st \ {key} |-> st[k]]
    ELSE st

\* Cache.set
\* Cache.set keeping the entry a key already has
CacheSet_keepExisting(st, key, value, type, ttl, t) ==
    IF key \in DOMAIN st THEN st
    ELSE [k \in DOMAIN st \cup {key} |->
            IF k = key THEN [value |-> value, expiresAt |-> t + TtlOf(ttl, type)]
            ELSE st[k]]

CacheSet(st, key, value, type, ttl, t) ==
    [k \in DOMAIN st \cup {key} |->
        IF k = key THEN [value |-> value, expiresAt |-> t + TtlOf(ttl, type)]
        ELSE st[k]]

\* Cache.clear
\* Cache.clear removing the expired entries only
CacheClear_expiredOnly(st) ==
    [k \in {j \in DOMAIN st : now > st[j].expiresAt} |-> st[k]]

CacheClear(st) == [k \in {} |-> k]

\* Cache.delete: the store it leaves (it returns whether the key was there)
CacheDelete(st, key) == [k \in DOMAIN st \ {key} |-> st[k]]

\* Cache.size counting the entries that have not expired
CacheSize_unexpired(st) ==
    Cardinality({k \in DOMAIN st : ~(now > st[k].expiresAt)})

\* Cache.size
CacheSize(st) == Cardinality(DOMAIN st)

----------------------------------------------------------------------------
(* Errors (WeatherError, isTransientError) *)

Msg(ctx, text, arg) == [ctx |-> ctx, text |-> text, arg |-> arg]

\* a thrown value: type is "AxiosError", "Error", or "NonObject" for a
\* thrown primitive; response/request say whether the
\* property is there, status = Undefined when response.status is missing,
\* code = "" when there is no string code
Err(type, response, status, code, request, msg) ==
    [type |-> type, response |-> response, status |-> status, code |-> code,
     request |-> request, msg |-> msg]

NoErr == Err("none", FALSE, Undefined, "", FALSE, Msg("", "", <<>>))

\* new Error(message)
PlainError(text, arg) ==
    Err("Error", FALSE, Undefined, "", FALSE, Msg("", text, arg))

\* axios rejection on a response whose status is outside 2xx
HttpError(status) ==
    Err("AxiosError", TRUE, status,
        IF status < 500 THEN "ERR_BAD_REQUEST" ELSE "ERR_BAD_RESPONSE", TRUE,
        Msg("", "Request failed with status code ", NatToString(status)))

\* axios rejection without a response: the request was made
NetworkError(code) ==
    Err("AxiosError", FALSE, Undefined, code, TRUE, Msg("", "Network Error", <<>>))

\* transientCodes without the code of an unreachable network
transientCodes_noUnreach ==
    {"ECONNREFUSED", "ECONNRESET", "ETIMEDOUT", "ENOTFOUND", "EAI_AGAIN"}

transientCodes ==
    {"ECONNREFUSED", "ECONNRESET", "ETIMEDOUT", "ENOTFOUND", "ENETUNREACH",
     "EAI_AGAIN"}

Truthy(n) == n # Undefined /\ n # 0

\* isTransientError with the server-error test widened to every status
\* from 400 up
isTransientError_clientErrors(error) ==
    IF error.type \in {"none", "NonObject"} THEN FALSE
    ELSE IF error.response /\ Truthy(error.status) /\ error.status >= 400
    THEN TRUE
    ELSE IF error.code # "" /\ error.code \in transientCodes THEN TRUE
    ELSE IF error.request /\ ~error.response THEN TRUE
    ELSE FALSE

\* isTransientError with the status rules only
isTransientError_statusOnly(error) ==
    IF error.type \in {"none", "NonObject"} THEN FALSE
    ELSE error.response
         /\ (error.status = 429
             \/ (Truthy(error.status) /\ error.status >= 500
                 /\ error.status < 600))

\* isTransientError looking at the transport code before the status
isTransientError_codesFirst(error) ==
    IF error.type \in {"none", "NonObject"} THEN FALSE
    ELSE IF error.code # "" /\ error.code \in transientCodes THEN TRUE
    ELSE IF error.request /\ ~error.response THEN TRUE
    ELSE error.response
         /\ (error.status = 429
             \/ (Truthy(error.status) /\ error.status >= 500
                 /\ error.status < 600))

\* isTransientError answering true where no rule applies
isTransientError_defaultTransient(error) ==
    IF error.type \in {"none", "NonObject"} THEN FALSE
    ELSE IF error.response
            /\ (error.status = 429
                \/ (Truthy(error.status) /\ error.status >= 500
                    /\ error.status < 600))
    THEN TRUE
    ELSE IF error.response /\ Truthy(error.status) /\ error.status >= 400
            /\ error.status < 500
    THEN FALSE
    ELSE TRUE

isTransientError(error) ==
    IF error.type \in {"none", "NonObject"} THEN FALSE
    ELSE IF error.response
            /\ (error.status = 429
                \/ (Truthy(error.status) /\ error.status >= 500
                    /\ error.status < 600))
    THEN TRUE
    ELSE IF error.response /\ Truthy(error.status) /\ error.status >= 400
            /\ error.status < 500
    THEN FALSE
    ELSE IF error.code # "" /\ error.code \in transientCodes THEN TRUE
    ELSE IF error.request /\ ~error.response THEN TRUE
    ELSE FALSE

\* a WeatherError that does not keep its cause
WeatherError_noCause(message, cause) ==
    [type |-> "WeatherError", response |-> FALSE, status |-> Undefined,
     code |-> "", request |-> FALSE, message |-> message, cause |-> NoErr]

\* new WeatherError(message, cause): an Error without response, code or
\* request
WeatherError(message, cause) ==
    [type |-> "WeatherError", response |-> FALSE, status |-> Undefined,
     code |-> "", request |-> FALSE, message |-> message, cause |-> cause]

NoWeatherError == WeatherError(Msg("", "", <<>>), NoErr)

\* error.message.includes("City not found")
IncludesCityNotFound(msg) ==
    msg.text \in {"City not found: ", "City not found"}

\* wrapError with the server-error test status > 500
wrapError_above500(error, context) ==
    IF error.type = "WeatherError" THEN error
    ELSE IF error.type \in {"Error", "AxiosError"} THEN
        IF IncludesCityNotFound(error.msg)
        THEN WeatherError(error.msg, error)
        ELSE IF error.response /\ error.status = 401
        THEN WeatherError(Msg("", "Invalid API key", <<>>), error)
        ELSE IF error.response /\ error.status = 404
        THEN WeatherError(Msg("", "City not found", <<>>), error)
        ELSE IF error.response /\ error.status = 429
        THEN WeatherError(Msg("", "Rate limit exceeded", <<>>), error)
        ELSE IF error.response /\ Truthy(error.status) /\ error.status > 500
        THEN WeatherError(Msg("", "Provider service unavailable", <<>>), error)
        ELSE IF error.code \in {"ECONNREFUSED", "ENOTFOUND"}
        THEN WeatherError(Msg("", "Unable to connect to weather service", <<>>),
                          error)
        ELSE IF error.code = "ETIMEDOUT"
        THEN WeatherError(Msg("", "Request timed out", <<>>), error)
        ELSE WeatherError(Msg(context, error.msg.text, error.msg.arg), error)
    ELSE WeatherError(Msg(context, "Unknown error occurred", <<>>), NoErr)

\* LotusWeather.wrapError
wrapError(error, context) ==
    IF error.type = "WeatherError" THEN error
    ELSE IF error.type \in {"Error", "AxiosError"} THEN
        IF IncludesCityNotFound(error.msg)
        THEN WeatherError(error.msg, error)
        ELSE IF error.response /\ error.status = 401
        THEN WeatherError(Msg("", "Invalid API key", <<>>), error)
        ELSE IF error.response /\ error.status = 404
        THEN WeatherError(Msg("", "City not found", <<>>), error)
        ELSE IF error.response /\ error.status = 429
        THEN WeatherError(Msg("", "Rate limit exceeded", <<>>), error)
        ELSE IF error.response /\ Truthy(error.status) /\ error.status >= 500
        THEN WeatherError(Msg("", "Provider service unavailable", <<>>), error)
        ELSE IF error.code \in {"ECONNREFUSED", "ENOTFOUND"}
        THEN WeatherError(Msg("", "Unable to connect to weather service", <<>>),
                          error)
        ELSE IF error.code = "ETIMEDOUT"
        THEN WeatherError(Msg("", "Request timed out", <<>>), error)
        ELSE WeatherError(Msg(context, error.msg.text, error.msg.arg), error)
    ELSE WeatherError(Msg(context, "Unknown error occurred", <<>>), NoErr)

----------------------------------------------------------------------------
(* What the upstream services can answer to one provider invocation *)

\* the failures of one HTTP call
NetErrors ==
    {HttpError(404), HttpError(503), NetworkError("ETIMEDOUT")}

UpstreamName == <<"L","o","n">>

Http(ok, body, err) == [ok |-> ok, body |-> body, err |-> err]

\* outcomes of the weather / forecast call answered at time t: the body
\* carries the time of the observation, which tells two bodies apart
NetOutcomes(t) ==
    {Http(TRUE, t, NoErr)} \cup {Http(FALSE, 0, e) : e \in NetErrors}

\* outcomes of the geocoding call: body = number of results, Undefined when
\* the response has no results property
GeoOutcomes ==
    {Http(TRUE, n, NoErr) : n \in {Undefined, 0, 1, 2}}
    \cup {Http(FALSE, 0, e) : e \in NetErrors}

\* latitude/longitude of the first geocoding result, in 0.00001 degree
GeoResult == [latitude |-> 5150742, longitude |-> -12776]

\* response.data.results of a response with n results
GeoResults(n) ==
    SubSeq(<<GeoResult, [latitude |-> 4885660, longitude |-> 235220]>>, 1, n)

\* a call that is not made
NoCall == Http(FALSE, 0, NoErr)

\* the geocoding call comes first where there is one, and the weather call
\* is made only after it returned a result
Upstreams(geocodes, t) ==
    IF geocodes
    THEN {[geo |-> g, net |-> n] :
            g \in {x \in GeoOutcomes : x.ok /\ x.body > 0},
            n \in NetOutcomes(t)}
         \cup {[geo |-> g, net |-> NoCall] :
                 g \in {x \in GeoOutcomes : ~(x.ok /\ x.body > 0)}}
    ELSE {[geo |-> NoCall, net |-> n] : n \in NetOutcomes(t)}

----------------------------------------------------------------------------
(* Providers *)

\* a normalised result: its provider, its kind, the city it names, the
\* upstream observation it was built from and, for a forecast, the number of
\* days asked of the provider
Value(src, kind, city, data) ==
    [src |-> src, kind |-> kind, city |-> city, data |-> data, days |-> 0]

Forecast(src, days, data) ==
    [Value(src, "forecast", <<>>, data) EXCEPT !.days = days]

NoValue == Value(<<>>, "none", <<>>, 0)

Return(v) == [ok |-> TRUE, value |-> v, error |-> NoErr]
Throw(e) == [ok |-> FALSE, value |-> NoValue, error |-> e]

Coords(lat, lon) == [latitude |-> lat, longitude |-> lon]

\* `${lat.toFixed(4)},${lon.toFixed(4)}`
CoordString(lat, lon) == toFixed4(lat) \o <<",">> \o toFixed4(lon)

RawModeError ==
    PlainError("Raw mode is only supported for Open-Meteo provider", <<>>)

\* OpenWeatherProvider.mapToCurrentWeather
OW_mapToCurrentWeather(body) == Value(OPENWEATHER, "current", UpstreamName, body)

\* OpenWeatherProvider.getCurrentWeatherByCity
OW_getCurrentWeatherByCity(city, raw, up) ==
    IF ~up.net.ok THEN Throw(up.net.err)
    ELSE IF raw THEN Throw(RawModeError)
    ELSE Return(OW_mapToCurrentWeather(up.net.body))

\* OpenWeatherProvider.getCurrentWeatherByCoords
OW_getCurrentWeatherByCoords(coords, raw, up) ==
    IF ~up.net.ok THEN Throw(up.net.err)
    ELSE IF raw THEN Throw(RawModeError)
    ELSE Return(OW_mapToCurrentWeather(up.net.body))

\* OpenWeatherProvider.getForecastByCity (the aggregate stands for
\* aggregateForecast(response.data.list, options?.days ?? 5))
OW_getForecastByCity(city, days, up) ==
    IF ~up.net.ok THEN Throw(up.net.err)
    ELSE Return(Forecast(OPENWEATHER,
                         IF days # Undefined THEN days ELSE 5, up.net.body))

\* geocode throwing its error without the city
OM_geocode_noCity(city, geo) ==
    IF ~geo.ok THEN Throw(geo.err)
    ELSE IF geo.body = Undefined \/ Len(GeoResults(geo.body)) = 0
    THEN Throw(PlainError("City not found", <<>>))
    ELSE LET location == GeoResults(geo.body)[1]
         IN  [ok |-> TRUE,
              value |-> Coords(location.latitude, location.longitude),
              error |-> NoErr]

\* OpenMeteoProvider.geocode
OM_geocode(city, geo) ==
    IF ~geo.ok THEN Throw(geo.err)
    ELSE IF geo.body = Undefined \/ Len(GeoResults(geo.body)) = 0
    THEN Throw(PlainError("City not found: ", city))
    ELSE LET location == GeoResults(geo.body)[1]
         IN  [ok |-> TRUE,
              value |-> Coords(location.latitude, location.longitude),
              error |-> NoErr]

\* OpenMeteoProvider.getCurrentWeatherByCoords
OM_getCurrentWeatherByCoords(coords, raw, up) ==
    IF ~up.net.ok THEN Throw(up.net.err)
    ELSE IF raw THEN Return(Value(OPEN_METEO, "raw", <<>>, up.net.body))
    ELSE Return(Value(OPEN_METEO, "current",
                      CoordString(coords.latitude, coords.longitude),
                      up.net.body))

\* getCurrentWeatherByCity returning what getCurrentWeatherByCoords gave
OM_getCurrentWeatherByCity_coordsLabel(city, raw, up) ==
    LET coordinates == OM_geocode(city, up.geo)
    IN  IF ~coordinates.ok THEN Throw(coordinates.error)
        ELSE OM_getCurrentWeatherByCoords(coordinates.value, raw, up)

\* OpenMeteoProvider.getCurrentWeatherByCity
OM_getCurrentWeatherByCity(city, raw, up) ==
    LET coordinates == OM_geocode(city, up.geo)
        weather == OM_getCurrentWeatherByCoords(coordinates.value, raw, up)
    IN  IF ~coordinates.ok THEN Throw(coordinates.error)
        ELSE IF ~weather.ok THEN weather
        ELSE IF raw THEN weather
        ELSE Return([weather.value EXCEPT !.city = city])

\* OpenMeteoProvider.getForecastByCoords
OM_getForecastByCoords(coords, days, up) ==
    IF ~up.net.ok THEN Throw(up.net.err)
    ELSE Return(Forecast(OPEN_METEO,
                         IF days # Undefined THEN days ELSE 5, up.net.body))

\* OpenMeteoProvider.getForecastByCity
OM_getForecastByCity(city, days, up) ==
    LET coordinates == OM_geocode(city, up.geo)
    IN  IF ~coordinates.ok THEN Throw(coordinates.error)
        ELSE OM_getForecastByCoords(coordinates.value, days, up)

----------------------------------------------------------------------------
(* Orchestrator (LotusWeather) *)

\* validateConfig without its test that the two providers differ
validateConfig_sameProvider(cfg) ==
    IF cfg.provider = OPENWEATHER /\ cfg.apiKey = ""
    THEN "API key is required for OpenWeather provider"
    ELSE IF cfg.fallbackProvider = OPENWEATHER /\ cfg.apiKey = ""
    THEN "API key is required when using OpenWeather as fallback provider"
    ELSE ""

\* LotusWeather.validateConfig: the message thrown, "" when it returns
validateConfig(cfg) ==
    IF cfg.provider = OPENWEATHER /\ cfg.apiKey = ""
    THEN "API key is required for OpenWeather provider"
    ELSE IF cfg.fallbackProvider = OPENWEATHER /\ cfg.apiKey = ""
    THEN "API key is required when using OpenWeather as fallback provider"
    ELSE IF cfg.fallbackProvider = cfg.provider
    THEN "Fallback provider must be different from primary provider"
    ELSE ""

NoTtl == [current |-> Undefined, forecast |-> Undefined, geocoding |-> Undefined]

\* the cache option of the configurations tried: none, or enabled with short
\* lifetimes for current and forecast entries
CacheConfigs ==
    {[enabled |-> FALSE, ttl |-> NoTtl],
     [enabled |-> TRUE,
      ttl |-> [current |-> 1, forecast |-> 2, geocoding |-> Undefined]]}

\* apiKey "" stands for a missing key as well: both are falsy
Configs ==
    {cfg \in [provider : ProviderTypes,
              fallbackProvider : ProviderTypes \cup {NoProvider},
              apiKey : {"", "key"},
              cache : CacheConfigs] :
        \* a key is given only when a provider asks for one
        cfg.apiKey = "key" =>
            (cfg.provider = OPENWEATHER \/ cfg.fallbackProvider = OPENWEATHER)}

\* this.cache is set
HasCache == config.cache.enabled
\* executeWithFallback without its test for a missing fallback provider
HasFallback_always == TRUE

\* this.fallbackProvider is set
HasFallback == config.fallbackProvider # NoProvider

Request(method, city, lat, lon, raw, days) ==
    [method |-> method, city |-> city, lat |-> lat, lon |-> lon, raw |-> raw,
     days |-> days]

NoRequest == Request("none", <<>>, 0, 0, FALSE, Undefined)

Cities == {<<"L","o">>}
CoordInputs == {[lat |-> 5150742, lon |-> -12776]}
DaysInputs == {Undefined, 3}

\* the public methods without their raw-mode branch
IsRaw_never(r) == FALSE

\* requests that skip the cache
IsRaw(r) == r.method \in {"getCurrentWeather", "getWeatherByCoords"} /\ r.raw

\* coordinate keys in a key space of their own
cacheKey_coordsSpace(r) ==
    CASE r.method = "getCurrentWeather" ->
            createKey(config.provider, CURRENT, r.city, <<>>)
      [] r.method = "getWeatherByCoords" ->
            createKey(config.provider, <<"c","o","o","r","d","s">>,
                      CoordString(r.lat, r.lon), <<>>)
      [] r.method = "getForecast" ->
            createKey(config.provider, FORECAST, r.city,
                      NatToString(IF r.days # Undefined THEN r.days ELSE 5))

\* forecast keys without the number of days
cacheKey_noDays(r) ==
    CASE r.method = "getCurrentWeather" ->
            createKey(config.provider, CURRENT, r.city, <<>>)
      [] r.method = "getWeatherByCoords" ->
            createKey(config.provider, CURRENT, CoordString(r.lat, r.lon), <<>>)
      [] r.method = "getForecast" ->
            createKey(config.provider, FORECAST, r.city, <<>>)

\* cache keys built from the fallback provider's id when there is one
cacheKey_fallbackId(r) ==
    LET id == IF config.fallbackProvider # NoProvider
              THEN config.fallbackProvider ELSE config.provider
    IN  CASE r.method = "getCurrentWeather" ->
                createKey(id, CURRENT, r.city, <<>>)
          [] r.method = "getWeatherByCoords" ->
                createKey(id, CURRENT, CoordString(r.lat, r.lon), <<>>)
          [] r.method = "getForecast" ->
                createKey(id, FORECAST, r.city,
                          NatToString(IF r.days # Undefined THEN r.days ELSE 5))

\* the cache key each public method builds
cacheKey(r) ==
    CASE r.method = "getCurrentWeather" ->
            createKey(config.provider, CURRENT, r.city, <<>>)
      [] r.method = "getWeatherByCoords" ->
            createKey(config.provider, CURRENT, CoordString(r.lat, r.lon), <<>>)
      [] r.method = "getForecast" ->
            createKey(config.provider, FORECAST, r.city,
                      NatToString(IF r.days # Undefined THEN r.days ELSE 5))

\* the category each public method stores its result under
cacheType(r) == IF r.method = "getForecast" THEN FORECAST ELSE CURRENT

\* operation(provider): the closure each public method hands to
\* executeWithFallback, run against the upstream answers `up`
operation(provider, r, up) ==
    CASE r.method = "getCurrentWeather" ->
            IF provider = OPENWEATHER
            THEN OW_getCurrentWeatherByCity(r.city, r.raw, up)
            ELSE OM_getCurrentWeatherByCity(r.city, r.raw, up)
      [] r.method = "getWeatherByCoords" ->
            IF provider = OPENWEATHER
            THEN OW_getCurrentWeatherByCoords(Coords(r.lat, r.lon), r.raw, up)
            ELSE OM_getCurrentWeatherByCoords(Coords(r.lat, r.lon), r.raw, up)
      [] r.method = "getForecast" ->
            IF provider = OPENWEATHER
            THEN OW_getForecastByCity(r.city, r.days, up)
            ELSE OM_getForecastByCity(r.city, r.days, up)

\* the provider's first await is the geocoding call
Geocodes(provider, r) ==
    provider = OPEN_METEO /\ r.method \in {"getCurrentWeather", "getForecast"}

\* no function has been called on its own
NoInput == [op |-> "none"]
NoOutput == [op |-> "none"]

Settled(kind, value, error) == [kind |-> kind, value |-> value, error |-> error]
Pending == Settled("none", NoValue, NoWeatherError)

\* new LotusWeather(cfg): the instance, no call made on it yet
Constructed(cfg) ==
    /\ config = cfg
    /\ ctorError = validateConfig(cfg)
    /\ store = [k \in {} |-> k]
    /\ now = 0
    /\ pc = [c \in Calls |-> "idle"]
    /\ req = [c \in Calls |-> NoRequest]
    /\ lookup = [c \in Calls |-> "none"]
    /\ primErr = [c \in Calls |-> NoErr]
    /\ fbErr = [c \in Calls |-> NoErr]
    /\ nPrimary = [c \in Calls |-> 0]
    /\ nFallback = [c \in Calls |-> 0]
    /\ nGeocode = [c \in Calls |-> 0]
    /\ outcome = [c \in Calls |-> Pending]
    /\ issued = 0

Init ==
    /\ \E cfg \in Configs : Constructed(cfg)
    /\ input = NoInput
    /\ output = NoOutput

\* no promise has settled whose caller has not yet resumed
NoneSettled == \A c \in Calls : pc[c] # "done"

\* a public method is called: everything up to its first await
Begin(c, r) ==
    /\ ctorError = ""
    /\ pc[c] = "idle"
    /\ NoneSettled
    \* calls are numbered in the order they are in flight
    /\ \A d \in Calls : d < c => pc[d] \in {"primary", "fallback"}
    /\ issued < MaxCalls
    /\ issued' = issued + 1
    /\ req' = [req EXCEPT ![c] = r]
    /\ IF ~IsRaw(r) /\ HasCache /\ CacheHit(store, cacheKey(r), now)
       THEN /\ pc' = [pc EXCEPT ![c] = "done"]
            /\ lookup' = [lookup EXCEPT ![c] = "hit"]
            /\ outcome' = [outcome EXCEPT
                             ![c] = Settled("value", store[cacheKey(r)].value,
                                            NoWeatherError)]
            /\ store' = CacheGetStore(store, cacheKey(r), now)
            /\ UNCHANGED nPrimary
       ELSE /\ pc' = [pc EXCEPT ![c] = "primary"]
            /\ nPrimary' = [nPrimary EXCEPT ![c] = @ + 1]
            /\ IF ~IsRaw(r) /\ HasCache
               THEN /\ store' = CacheGetStore(store, cacheKey(r), now)
                    /\ lookup' = [lookup EXCEPT
                                    ![c] = IF cacheKey(r) \in DOMAIN store
                                           THEN "expired" ELSE "miss"]
               ELSE /\ lookup' = [lookup EXCEPT ![c] = "bypass"]
                    /\ store' = store
            /\ UNCHANGED outcome
    /\ UNCHANGED <<config, ctorError, now, primErr, fbErr, nFallback>>
    /\ UNCHANGED nGeocode
    /\ UNCHANGED unit

\* LotusWeather.getCurrentWeather
GetCurrentWeather(c) ==
    \E city \in Cities, raw \in BOOLEAN :
        Begin(c, Request("getCurrentWeather", city, 0, 0, raw, Undefined))

\* LotusWeather.getWeatherByCoords
GetWeatherByCoords(c) ==
    \E co \in CoordInputs, raw \in BOOLEAN :
        Begin(c, Request("getWeatherByCoords", <<>>, co.lat, co.lon, raw,
                         Undefined))

\* LotusWeather.getForecast
GetForecast(c) ==
    \E city \in Cities, days \in DaysInputs :
        Begin(c, Request("getForecast", city, 0, 0, FALSE, days))

\* a public method that drops its result when clearCache() has run since
\* the last call began
Resolve_unlessCleared(c, value) ==
    /\ pc' = [pc EXCEPT ![c] = "done"]
    /\ outcome' = [outcome EXCEPT ![c] = Settled("value", value, NoWeatherError)]
    /\ store' = IF ~IsRaw(req[c]) /\ HasCache
                   /\ ~(output.op = "clearCache" /\ output.issued = issued)
                THEN CacheSet(store, cacheKey(req[c]), value, cacheType(req[c]),
                              CacheTtl(config.cache.ttl), now)
                ELSE store

\* the public method resumes with the result of executeWithFallback:
\* cache the successful result and return it
Resolve(c, value) ==
    /\ pc' = [pc EXCEPT ![c] = "done"]
    /\ outcome' = [outcome EXCEPT ![c] = Settled("value", value, NoWeatherError)]
    /\ store' = IF ~IsRaw(req[c]) /\ HasCache
                THEN CacheSet(store, cacheKey(req[c]), value, cacheType(req[c]),
                              CacheTtl(config.cache.ttl), now)
                ELSE store

\* a rejection that leaves an entry without a result under the call's key
Reject_cachesError(c, error) ==
    /\ pc' = [pc EXCEPT ![c] = "done"]
    /\ outcome' = [outcome EXCEPT ![c] = Settled("error", NoValue, error)]
    /\ store' = IF ~IsRaw(req[c]) /\ HasCache
                THEN CacheSet(store, cacheKey(req[c]), NoValue,
                              cacheType(req[c]), CacheTtl(config.cache.ttl), now)
                ELSE store

\* executeWithFallback throws: the public method rejects
Reject(c, error) ==
    /\ pc' = [pc EXCEPT ![c] = "done"]
    /\ outcome' = [outcome EXCEPT ![c] = Settled("error", NoValue, error)]
    /\ store' = store

\* the fallback's error wrapped instead of the primary's
FallbackFailure_wrapsFallback(error, fallbackError, context) ==
    wrapError(fallbackError, context)

\* executeWithFallback, the fallback attempt failed too: the error thrown
FallbackFailure(error, fallbackError, context) == wrapError(error, context)

\* executeWithFallback: operation(this.primaryProvider) settles
PrimarySettles(c) ==
    /\ pc[c] = "primary"
    /\ NoneSettled
    /\ \E up \in Upstreams(Geocodes(config.provider, req[c]), now) :
        LET r == operation(config.provider, req[c], up) IN
        IF r.ok
        THEN /\ Resolve(c, r.value)
             /\ UNCHANGED <<primErr, nFallback>>
        ELSE /\ primErr' = [primErr EXCEPT ![c] = r.error]
             /\ IF ~HasFallback
                THEN /\ Reject(c, wrapError(r.error, req[c].method))
                     /\ UNCHANGED nFallback
                ELSE IF ~isTransientError(r.error)
                THEN /\ Reject(c, wrapError(r.error, req[c].method))
                     /\ UNCHANGED nFallback
                ELSE /\ pc' = [pc EXCEPT ![c] = "fallback"]
                     /\ nFallback' = [nFallback EXCEPT ![c] = @ + 1]
                     /\ UNCHANGED <<outcome, store>>
    \* operation(provider) of a city method of Open-Meteo geocodes first
    /\ nGeocode' = [nGeocode EXCEPT
                      ![c] = IF Geocodes(config.provider, req[c])
                             THEN @ + 1 ELSE @]
    /\ UNCHANGED <<config, ctorError, now, req, lookup, fbErr, nPrimary,
                   issued>>
    /\ UNCHANGED unit

\* executeWithFallback going back to the primary provider when the fallback
\* attempt failed
FallbackSettles_retriesPrimary(c) ==
    /\ pc[c] = "fallback"
    /\ NoneSettled
    /\ \E up \in Upstreams(Geocodes(config.fallbackProvider, req[c]), now) :
        LET r == operation(config.fallbackProvider, req[c], up) IN
        IF r.ok
        THEN /\ Resolve(c, r.value)
             /\ UNCHANGED <<fbErr, nPrimary>>
        ELSE /\ fbErr' = [fbErr EXCEPT ![c] = r.error]
             /\ pc' = [pc EXCEPT ![c] = "primary"]
             /\ nPrimary' = [nPrimary EXCEPT ![c] = @ + 1]
             /\ UNCHANGED <<outcome, store>>
    /\ nGeocode' = [nGeocode EXCEPT
                      ![c] = IF Geocodes(config.fallbackProvider, req[c])
                             THEN @ + 1 ELSE @]
    /\ UNCHANGED <<config, ctorError, now, req, lookup, primErr, nFallback,
                   issued>>
    /\ UNCHANGED unit

\* executeWithFallback: operation(this.fallbackProvider) settles
FallbackSettles(c) ==
    /\ pc[c] = "fallback"
    /\ NoneSettled
    /\ \E up \in Upstreams(Geocodes(config.fallbackProvider, req[c]), now) :
        LET r == operation(config.fallbackProvider, req[c], up) IN
        IF r.ok
        THEN /\ Resolve(c, r.value)
             /\ UNCHANGED fbErr
        ELSE /\ fbErr' = [fbErr EXCEPT ![c] = r.error]
             /\ Reject(c, FallbackFailure(primErr[c], r.error, req[c].method))
    /\ nGeocode' = [nGeocode EXCEPT
                      ![c] = IF Geocodes(config.fallbackProvider, req[c])
                             THEN @ + 1 ELSE @]
    /\ UNCHANGED <<config, ctorError, now, req, lookup, primErr, nPrimary,
                   nFallback, issued>>
    /\ UNCHANGED unit

\* LotusWeather.clearCache
ClearCache ==
    /\ ctorError = ""
    /\ NoneSettled
    /\ store' = IF HasCache THEN CacheClear(store) ELSE store
    /\ UNCHANGED <<config, ctorError, now, pc, req, lookup, primErr, fbErr,
                   nPrimary, nFallback, outcome, issued>>
    /\ UNCHANGED nGeocode
    /\ UNCHANGED unit

\* the clock advances
Tick ==
    /\ now < MaxTime
    /\ NoneSettled
    /\ now' = now + 1
    /\ UNCHANGED <<config, ctorError, store, pc, req, lookup, primErr, fbErr,
                   nPrimary, nFallback, outcome, issued>>
    /\ UNCHANGED nGeocode
    /\ UNCHANGED unit

\* the caller of a settled call resumes with its outcome: the call is over
Resume(c) ==
    /\ pc[c] = "done"
    /\ pc' = [pc EXCEPT ![c] = "idle"]
    /\ req' = [req EXCEPT ![c] = NoRequest]
    /\ lookup' = [lookup EXCEPT ![c] = "none"]
    /\ primErr' = [primErr EXCEPT ![c] = NoErr]
    /\ fbErr' = [fbErr EXCEPT ![c] = NoErr]
    /\ nPrimary' = [nPrimary EXCEPT ![c] = 0]
    /\ nFallback' = [nFallback EXCEPT ![c] = 0]
    /\ outcome' = [outcome EXCEPT ![c] = Pending]
    /\ nGeocode' = [nGeocode EXCEPT ![c] = 0]
    /\ UNCHANGED <<config, ctorError, store, now, issued>>
    /\ UNCHANGED unit

Next ==
    \/ \E c \in Calls : GetCurrentWeather(c)
    \/ \E c \in Calls : GetWeatherByCoords(c)
    \/ \E c \in Calls : GetForecast(c)
    \/ \E c \in Calls : PrimarySettles(c)
    \/ \E c \in Calls : FallbackSettles(c)
    \/ \E c \in Calls : Resume(c)
    \/ ClearCache
    \/ Tick

Spec == Init /\ [][Next]_vars

----------------------------------------------------------------------------
(* The error classifier on its own: isTransientError (exported) and        *)
(* wrapError applied to any value an operation can throw                   *)

\* response.status of the errors tried
Statuses == {Undefined, 200, 400, 401, 404, 429, 499, 500, 503, 599, 600}

\* error.code of the errors tried; "" when there is no string code
Codes ==
    {"", "ECONNREFUSED", "ECONNRESET", "ETIMEDOUT", "ENOTFOUND", "ENETUNREACH",
     "EAI_AGAIN", "ERR_BAD_REQUEST", "ECONNABORTED"}

\* error.message of the errors tried
Messages ==
    {Msg("", "Network Error", <<>>),
     Msg("", "City not found: ", <<"L","o">>),
     Msg("", "Cannot read properties of undefined", <<>>)}

\* Error objects with any combination of the properties inspected; there is
\* a status only where there is a response
ErrorShapes ==
    {e \in [type : {"AxiosError", "Error"}, response : BOOLEAN,
            status : Statuses, code : Codes, request : BOOLEAN,
            msg : Messages] :
        ~e.response => e.status = Undefined}

\* what axios and the providers throw
Throwables ==
    {HttpError(st) : st \in {400, 401, 404, 429, 499, 500, 503, 599}}
    \cup {NetworkError(co) : co \in Codes \ {"", "ERR_BAD_REQUEST"}}
    \cup {PlainError("City not found: ", <<"L","o">>), RawModeError}

\* WeatherErrors, and a thrown value that is not an object
OtherThrown ==
    {WeatherError(Msg("", "Invalid API key", <<>>), HttpError(401)),
     WeatherError(Msg("", "Geocoding not supported for this provider", <<>>),
                  NoErr),
     Err("NonObject", FALSE, Undefined, "", FALSE, Msg("", "", <<>>))}

Contexts == {"getCurrentWeather", "getWeatherByCoords", "getForecast"}

DefaultConfig ==
    [provider |-> OPEN_METEO, fallbackProvider |-> NoProvider, apiKey |-> "",
     cache |-> [enabled |-> FALSE, ttl |-> NoTtl]]

InitErrors ==
    /\ Constructed(DefaultConfig)
    /\ \E e \in ErrorShapes \cup Throwables \cup OtherThrown, m \in Contexts :
          input = [op |-> "catch", error |-> e, context |-> m]
    /\ output = NoOutput

\* the catch block of executeWithFallback on the value thrown: it is
\* classified and wrapped
ClassifyAndWrap ==
    /\ input.op = "catch"
    /\ output = NoOutput
    /\ output' = [op |-> "caught",
                  transient |-> isTransientError(input.error),
                  wrapped |-> wrapError(input.error, input.context)]
    /\ UNCHANGED <<config, ctorError, store, now, pc, req, lookup, primErr,
                   fbErr, nPrimary, nFallback, outcome, issued, input>>
    /\ UNCHANGED nGeocode

NextErrors == ClassifyAndWrap

SpecErrors == InitErrors /\ [][NextErrors]_vars

----------------------------------------------------------------------------
(* Properties *)

\* a failure the documentation calls transient: status 429 or 5xx, or no
\* response and either a transport code or a request that was sent
DocTransient(e) ==
    \/ e.response /\ (e.status = 429 \/ (e.status >= 500 /\ e.status <= 599))
    \/ ~e.response /\ (e.code \in transientCodes \/ e.request)

\* a failure the documentation calls permanent: a 4xx status other than 429,
\* or no response, no transport code and no request
DocPermanent(e) ==
    \/ e.response /\ e.status >= 400 /\ e.status <= 499 /\ e.status # 429
    \/ ~e.response /\ e.code \notin transientCodes /\ ~e.request

Failed(c) == primErr[c] # NoErr

Raised(c, error) == pc[c] = "done" /\ outcome[c] = Settled("error", NoValue, error)

\* C1: with a fallback configured, a primary failure that is not transient
\* never reaches the fallback provider: the call settles with the wrapped
\* primary error and no fallback invocation.
C1_PermanentSkipsFallback ==
    \A c \in Calls :
        (config.fallbackProvider # NoProvider /\ Failed(c)
         /\ DocPermanent(primErr[c]))
        => /\ nFallback[c] = 0
           /\ fbErr[c] = NoErr
           /\ Raised(c, wrapError(primErr[c], req[c].method))
           /\ outcome[c].error.cause = primErr[c]

C1_Witness ==
    \E c \in Calls :
        /\ config.fallbackProvider # NoProvider
        /\ primErr[c] = HttpError(404)
        /\ pc[c] = "done"
        /\ nFallback[c] = 0
        /\ outcome[c].kind = "error"

\* C2: a call invokes the primary provider at most once and the fallback
\* provider at most once; the fallback is invoked only after the primary
\* invocation of that call failed with a transient failure, and a transient
\* primary failure with a fallback configured leads to exactly one fallback
\* invocation.
C2_OneShotFallback ==
    \A c \in Calls :
        /\ nPrimary[c] <= 1
        /\ nFallback[c] <= 1
        /\ pc[c] \in {"primary", "fallback"} => nPrimary[c] = 1
        /\ nFallback[c] > 0 =>
              /\ nPrimary[c] = 1
              /\ config.fallbackProvider # NoProvider
              /\ Failed(c)
              /\ DocTransient(primErr[c])
        /\ (config.fallbackProvider # NoProvider /\ Failed(c)
            /\ DocTransient(primErr[c])) => nFallback[c] = 1

C2_Witness ==
    \E c \in Calls :
        /\ pc[c] = "done"
        /\ nPrimary[c] = 1
        /\ nFallback[c] = 1
        /\ primErr[c] = NetworkError("ETIMEDOUT")

\* C3: when the primary fails with status 503 and the fallback succeeds, the
\* call returns the fallback provider's result, and a cacheable call with
\* caching enabled has stored that result under the key that starts with
\* the primary provider's id.
C3_FallbackResultCached ==
    \A c \in Calls :
        (pc[c] = "done" /\ primErr[c] = HttpError(503)
         /\ outcome[c].kind = "value")
        => /\ outcome[c].value.src = config.fallbackProvider
           /\ outcome[c].value.kind # "none"
           /\ (config.cache.enabled /\ ~req[c].raw) =>
                LET key == cacheKey(req[c]) IN
                /\ key \in DOMAIN store
                /\ store[key].value = outcome[c].value
                /\ SubSeq(key, 1, Len(config.provider)) = config.provider

C3_Witness ==
    \E c \in Calls :
        /\ pc[c] = "done"
        /\ primErr[c] = HttpError(503)
        /\ outcome[c].kind = "value"
        /\ config.cache.enabled
        /\ ~req[c].raw
        /\ cacheKey(req[c]) \in DOMAIN store

\* C4: when the primary fails with a transient failure and the fallback
\* attempt fails too, the call raises the wrapping of the primary's error
\* (its canonical message, the primary error as cause), whatever the
\* fallback's error was.
C4_PrimaryErrorSurvives ==
    \A c \in Calls :
        (pc[c] = "done" /\ nFallback[c] = 1 /\ fbErr[c] # NoErr)
        => /\ outcome[c].kind = "error"
           /\ outcome[c].error.cause = primErr[c]
           /\ primErr[c].status = 503 =>
                outcome[c].error.message
                    = Msg("", "Provider service unavailable", <<>>)
           /\ primErr[c].code = "ETIMEDOUT" =>
                outcome[c].error.message = Msg("", "Request timed out", <<>>)

C4_Witness ==
    \E c \in Calls :
        /\ pc[c] = "done"
        /\ primErr[c] = HttpError(503)
        /\ fbErr[c] = HttpError(404)
        /\ outcome[c].kind = "error"

\* C5: without a fallback provider every primary failure, transient or
\* permanent, is wrapped and raised after exactly one provider invocation.
C5_NoFallbackRaises ==
    \A c \in Calls :
        (config.fallbackProvider = NoProvider /\ Failed(c))
        => /\ nPrimary[c] = 1
           /\ nFallback[c] = 0
           /\ pc[c] = "done"
           /\ outcome[c].kind = "error"
           /\ outcome[c].error.cause = primErr[c]
           /\ outcome[c].error = wrapError(primErr[c], req[c].method)

C5_Witness ==
    \E c \in Calls :
        /\ config.fallbackProvider = NoProvider
        /\ pc[c] = "done"
        /\ primErr[c] = HttpError(503)
        /\ outcome[c].kind = "error"

\* a public method is called in this step
BeginsCall(c) == pc[c] = "idle" /\ pc'[c] # "idle"

\* the call's provider work ends in this step with a returned value
Fetched(c) ==
    pc[c] \in {"primary", "fallback"} /\ pc'[c] = "done"
    /\ outcome'[c].kind = "value"

\* the lifetime the documentation gives an entry of the request's category
DocTtl(r) ==
    IF r.method = "getForecast"
    THEN IF config.cache.ttl.forecast # Undefined
         THEN config.cache.ttl.forecast ELSE 30 * 60 * 1000
    ELSE IF config.cache.ttl.current # Undefined
         THEN config.cache.ttl.current ELSE 5 * 60 * 1000

\* C6: with caching enabled, a cacheable call that fetched leaves the value
\* it returned in the cache, inside its lifetime; and a cacheable call made
\* while the entry of its key has not expired (now <= expiresAt) settles at
\* once with exactly that stored value, invokes no provider and leaves the
\* store as it was: two such calls in sequence make one invocation in all.
C6_SecondCallServedFromCache ==
    [][\A c \in Calls :
          /\ (Fetched(c) /\ config.cache.enabled /\ ~req[c].raw)
             => /\ cacheKey(req[c]) \in DOMAIN store'
                /\ store'[cacheKey(req[c])].value = outcome'[c].value
                /\ now' <= store'[cacheKey(req[c])].expiresAt
          /\ (BeginsCall(c) /\ config.cache.enabled /\ ~req'[c].raw
              /\ cacheKey(req'[c]) \in DOMAIN store
              /\ now <= store[cacheKey(req'[c])].expiresAt)
             => /\ pc'[c] = "done"
                /\ outcome'[c] = Settled("value",
                                         store[cacheKey(req'[c])].value,
                                         NoWeatherError)
                /\ nPrimary'[c] = 0
                /\ nFallback'[c] = 0
                /\ store' = store]_vars

C6_Witness ==
    \E c \in Calls :
        /\ pc[c] = "done"
        /\ lookup[c] = "hit"
        /\ nPrimary[c] = 0
        /\ issued = 2
        /\ outcome[c].kind = "value"
        /\ store[cacheKey(req[c])].expiresAt = now

\* C7: with caching enabled, a cacheable call made after the entry of its
\* key has expired (now > expiresAt) is a miss: the entry is evicted, the
\* provider is invoked, and on success the fresh result is stored with
\* expiresAt = now + ttl[category].
C7_ExpiredEntryRefetched ==
    [][\A c \in Calls :
          /\ (BeginsCall(c) /\ config.cache.enabled /\ ~req'[c].raw
              /\ cacheKey(req'[c]) \in DOMAIN store
              /\ now > store[cacheKey(req'[c])].expiresAt)
             => /\ pc'[c] = "primary"
                /\ nPrimary'[c] = 1
                /\ lookup'[c] = "expired"
                /\ cacheKey(req'[c]) \notin DOMAIN store'
          /\ (Fetched(c) /\ config.cache.enabled /\ ~req[c].raw)
             => /\ cacheKey(req[c]) \in DOMAIN store'
                /\ store'[cacheKey(req[c])]
                     = [value |-> outcome'[c].value,
                        expiresAt |-> now + DocTtl(req[c])]]_vars

C7_Witness ==
    \E c \in Calls :
        /\ pc[c] = "done"
        /\ lookup[c] = "expired"
        /\ nPrimary[c] = 1
        /\ outcome[c].kind = "value"
        /\ outcome[c].value.data = now
        /\ store[cacheKey(req[c])].expiresAt = now + DocTtl(req[c])

\* C8: a raw-mode call of getCurrentWeather or getWeatherByCoords leaves the
\* store unchanged in every step it takes, whether it succeeds or fails,
\* and invokes the provider even when the store holds an entry for the same
\* city or coordinates that has not expired.
C8_RawBypassesCache ==
    [][\A c \in Calls :
          /\ (BeginsCall(c) /\ req'[c].raw)
             => /\ pc'[c] = "primary"
                /\ nPrimary'[c] = 1
                /\ store' = store
          /\ (pc[c] \in {"primary", "fallback"} /\ pc'[c] # pc[c]
              /\ req[c].raw)
             => store' = store]_vars

C8_Witness ==
    \E c \in Calls :
        /\ pc[c] = "done"
        /\ req[c].raw
        /\ nPrimary[c] = 1
        /\ outcome[c].kind = "value"
        /\ config.cache.enabled
        /\ cacheKey(req[c]) \in DOMAIN store
        /\ now <= store[cacheKey(req[c])].expiresAt

\* C9: errors are never cached. Every entry holds a normalized result; an
\* entry appears or changes only in the step in which a call with exactly
\* that key settles with a value a provider returned, and then holds that
\* value; a call that raises leaves the store unchanged.
C9_ErrorsNeverCached ==
    [][/\ \A k \in DOMAIN store' :
            /\ store'[k].value.kind \in {"current", "forecast"}
            /\ store'[k].value.src \in {config.provider, config.fallbackProvider}
            /\ (k \notin DOMAIN store \/ store'[k] # store[k])
               => \E c \in Calls :
                     /\ Fetched(c)
                     /\ k = cacheKey(req[c])
                     /\ store'[k].value = outcome'[c].value
       /\ \A c \in Calls :
            (pc[c] # "done" /\ pc'[c] = "done" /\ outcome'[c].kind = "error")
            => store' = store]_vars

C9_Witness ==
    \E c \in Calls :
        /\ pc[c] = "done"
        /\ outcome[c].kind = "error"
        /\ config.cache.enabled
        /\ ~req[c].raw
        /\ cacheKey(req[c]) \in DOMAIN store

\* C10: raw mode asked of the OpenWeather provider fails with the usage
\* error 'Raw mode is only supported for Open-Meteo provider' whatever the
\* upstream call does: whenever the provider has thrown, it threw that.
C10_RawAlwaysUsageError ==
    \A c \in Calls :
        (config.provider = OPENWEATHER /\ req[c].raw
         /\ pc[c] \in {"fallback", "done"})
        => primErr[c] = RawModeError

\* C11: a raw-mode call on an orchestrator whose primary provider is
\* OpenWeather never invokes the fallback provider and, once settled, has
\* raised an error, with or without a fallback configured.
C11_RawOnOpenWeatherRaises ==
    \A c \in Calls :
        (config.provider = OPENWEATHER /\ req[c].raw)
        => /\ nFallback[c] = 0
           /\ pc[c] = "done" => outcome[c].kind = "error"

\* C12: a city request whose primary provider failed with HTTP status 404
\* raises a WeatherError whose message is 'City not found: ' followed by the
\* city the caller asked for.
C12_NotFoundNamesCity ==
    \A c \in Calls :
        (pc[c] = "done" /\ primErr[c] = HttpError(404)
         /\ req[c].method \in {"getCurrentWeather", "getForecast"})
        => /\ outcome[c].kind = "error"
           /\ outcome[c].error.message = Msg("", "City not found: ", req[c].city)

\* C14: a settled call either returned a value or raised a WeatherError; a
\* call whose provider failed and that got no value from a fallback raised
\* one, no provider or transport error escapes as it was thrown; the
\* WeatherError raised has the error thrown by the primary provider as its
\* cause; and wrapping a WeatherError that was raised gives back that same
\* WeatherError, message and cause unchanged.
C14_EveryFailureIsWeatherError ==
    \A c \in Calls :
        pc[c] = "done" =>
            /\ outcome[c].kind \in {"value", "error"}
            /\ outcome[c].kind = "value" => outcome[c].error = NoWeatherError
            /\ (Failed(c) /\ (nFallback[c] = 0 \/ fbErr[c] # NoErr))
               => outcome[c].kind = "error"
            /\ outcome[c].kind = "error" =>
                  /\ outcome[c].value = NoValue
                  /\ outcome[c].error.type = "WeatherError"
                  /\ Failed(c)
                  /\ outcome[c].error.cause = primErr[c]
                  /\ outcome[c].error.cause.type \in {"Error", "AxiosError"}
                  /\ \A m \in {"getCurrentWeather", "getWeatherByCoords",
                                "getForecast"} :
                        wrapError(outcome[c].error, m) = outcome[c].error

C14_Witness ==
    \E c \in Calls :
        /\ pc[c] = "done"
        /\ outcome[c].kind = "error"
        /\ outcome[c].error.type = "WeatherError"
        /\ outcome[c].error.cause = NetworkError("ETIMEDOUT")
        /\ fbErr[c] = HttpError(503)

\* C17: a primary failure that is neither an HTTP-status failure nor a
\* transport failure (no response, no transport code, no request sent), such
\* as the 'City not found: <city>' error of Open-Meteo geocoding, settles
\* the call with the wrapped error and no fallback invocation; and a
\* WeatherError this system raised is itself never classified transient,
\* whatever its cause was.
C17_ApplicationErrorsArePermanent ==
    \A c \in Calls :
        /\ (Failed(c) /\ ~primErr[c].response /\ primErr[c].code = ""
            /\ ~primErr[c].request)
           => /\ nFallback[c] = 0
              /\ fbErr[c] = NoErr
              /\ pc[c] = "done"
              /\ outcome[c].kind = "error"
              /\ outcome[c].error.cause = primErr[c]
        /\ (pc[c] = "done" /\ outcome[c].kind = "error")
           => ~isTransientError(outcome[c].error)

C17_Witness ==
    \E c \in Calls :
        /\ config.fallbackProvider = OPENWEATHER
        /\ primErr[c] = PlainError("City not found: ", req[c].city)
        /\ pc[c] = "done"
        /\ nFallback[c] = 0
        /\ outcome[c].error.message = Msg("", "City not found: ", req[c].city)

\* C18: the constructor throws exactly when the primary provider is
\* openweather without an apiKey, the fallback provider is openweather
\* without an apiKey, or the fallback provider equals the primary; an
\* instance whose constructor threw never takes a request or holds an entry;
\* and every instance that took a request has a fallback different from its
\* primary and an apiKey whenever one of its providers is openweather.
C18_InvalidConfigRejected ==
    /\ ctorError # ""
       <=> \/ config.provider = OPENWEATHER /\ config.apiKey = ""
           \/ config.fallbackProvider = OPENWEATHER /\ config.apiKey = ""
           \/ config.fallbackProvider = config.provider
    /\ ctorError # ""
       => /\ issued = 0
          /\ \A c \in Calls : pc[c] = "idle" /\ outcome[c] = Pending
          /\ DOMAIN store = {}
    /\ (issued > 0 \/ \E c \in Calls : pc[c] # "idle")
       => /\ config.fallbackProvider # config.provider
          /\ (config.provider = OPENWEATHER
              \/ config.fallbackProvider = OPENWEATHER) => config.apiKey # ""

C18_Witness ==
    /\ config.provider = OPENWEATHER
    /\ config.fallbackProvider = OPENWEATHER
    /\ config.apiKey = "key"
    /\ ctorError = "Fallback provider must be different from primary provider"
    /\ issued = 0

----------------------------------------------------------------------------
(* The orchestrator asked for one city under several spellings *)

\* spellings of one city that differ in case and surrounding whitespace
CityVariants == {<<"L","o">>, <<" ","l","o"," ">>, <<"L","O">>}

\* Open-Meteo alone, caching enabled
KeysConfig ==
    [provider |-> OPEN_METEO, fallbackProvider |-> NoProvider, apiKey |-> "",
     cache |-> [enabled |-> TRUE,
                ttl |-> [current |-> 1, forecast |-> 2,
                         geocoding |-> Undefined]]]

InitKeys ==
    /\ Constructed(KeysConfig)
    /\ input = NoInput
    /\ output = NoOutput

\* LotusWeather.getCurrentWeather(city)
GetCurrentWeatherOfVariant(c) ==
    \E city \in CityVariants :
        Begin(c, Request("getCurrentWeather", city, 0, 0, FALSE, Undefined))

\* options.days: left out, 3, or the default 5 given explicitly
DaysVariants == {Undefined, 3, 5}

\* LotusWeather.getForecast(city, options)
GetForecastOfVariant(c) ==
    \E city \in CityVariants, days \in DaysVariants :
        Begin(c, Request("getForecast", city, 0, 0, FALSE, days))

NextKeys ==
    \/ \E c \in Calls : GetCurrentWeatherOfVariant(c)
    \/ \E c \in Calls : GetForecastOfVariant(c)
    \/ \E c \in Calls : PrimarySettles(c)
    \/ \E c \in Calls : Resume(c)
    \/ Tick

SpecKeys == InitKeys /\ [][NextKeys]_vars

----------------------------------------------------------------------------
(* A Cache used on its own: new Cache(ttl), then calls of its methods *)

\* the ttl argument of the constructor: nothing, or some lifetimes set
TtlConfigs ==
    {NoTtl,
     [current |-> 1, forecast |-> Undefined, geocoding |-> Undefined],
     [current |-> 1, forecast |-> 2, geocoding |-> 0]}

CacheOnly(ttlConfig) ==
    [provider |-> OPEN_METEO, fallbackProvider |-> NoProvider, apiKey |-> "",
     cache |-> [enabled |-> TRUE, ttl |-> ttlConfig]]

\* the keys and values the methods are called with
UnitKeys ==
    {createKey(OPEN_METEO, CURRENT, <<"L","o">>, <<>>),
     createKey(OPEN_METEO, FORECAST, <<"L","o">>, <<"5">>)}

UnitValues == {Value(OPEN_METEO, "current", <<"L","o">>, d) : d \in {0, 1}}

CacheKeyTypes == {CURRENT, FORECAST, GEOCODING}

InitCache ==
    /\ \E t \in TtlConfigs : Constructed(CacheOnly(t))
    /\ input = NoInput
    /\ output = NoOutput

\* a method of the cache is called with the arguments `in` and returns `out`
UnitCall(in, out) ==
    /\ issued < MaxOps
    /\ issued' = issued + 1
    /\ input' = in
    /\ output' = out
    /\ UNCHANGED <<config, ctorError, pc, req, lookup, primErr, fbErr,
                   nPrimary, nFallback, outcome>>
    /\ UNCHANGED nGeocode

\* cache.get(key)
CacheGetCall ==
    \E key \in UnitKeys :
        /\ UnitCall([op |-> "get", key |-> key],
                    IF CacheHit(store, key, now)
                    THEN [op |-> "get", found |-> TRUE,
                          value |-> store[key].value]
                    ELSE [op |-> "get", found |-> FALSE, value |-> NoValue])
        /\ store' = CacheGetStore(store, key, now)
        /\ now' = now

\* cache.has(key): this.get(key) !== undefined
CacheHasCall ==
    \E key \in UnitKeys :
        /\ UnitCall([op |-> "has", key |-> key],
                    [op |-> "has", found |-> CacheHit(store, key, now),
                     value |-> NoValue])
        /\ store' = CacheGetStore(store, key, now)
        /\ now' = now

\* cache.set(key, value, type)
CacheSetCall ==
    \E key \in UnitKeys, value \in UnitValues, type \in CacheKeyTypes :
        /\ UnitCall([op |-> "set", key |-> key, value |-> value,
                     type |-> type],
                    [op |-> "set", found |-> FALSE, value |-> NoValue])
        /\ store' = CacheSet(store, key, value, type,
                             CacheTtl(config.cache.ttl), now)
        /\ now' = now

\* cache.delete(key)
CacheDeleteCall ==
    \E key \in UnitKeys :
        /\ UnitCall([op |-> "delete", key |-> key],
                    [op |-> "delete", found |-> key \in DOMAIN store,
                     value |-> NoValue])
        /\ store' = CacheDelete(store, key)
        /\ now' = now

\* cache.clear()
CacheClearCall ==
    /\ UnitCall([op |-> "clear"],
                [op |-> "clear", found |-> FALSE, value |-> NoValue])
    /\ store' = CacheClear(store)
    /\ now' = now

\* cache.size
CacheSizeCall ==
    /\ UnitCall([op |-> "size"],
                [op |-> "size", found |-> FALSE, value |-> CacheSize(store)])
    /\ store' = store
    /\ now' = now

\* the clock advances between two calls
TickCache ==
    /\ now < MaxTime
    /\ now' = now + 1
    /\ UNCHANGED <<config, ctorError, store, pc, req, lookup, primErr, fbErr,
                   nPrimary, nFallback, outcome, issued, input, output>>
    /\ UNCHANGED nGeocode

NextCache ==
    \/ CacheGetCall
    \/ CacheHasCall
    \/ CacheSetCall
    \/ CacheDeleteCall
    \/ CacheClearCall
    \/ CacheSizeCall
    \/ TickCache

SpecCache == InitCache /\ [][NextCache]_vars

----------------------------------------------------------------------------
(* Properties of the classifier and of the keys *)

\* the value thrown is an Error object that is not a WeatherError
ThrownError == input.error.type \in {"AxiosError", "Error"}

\* the response status of the value thrown lies in lo..hi
StatusIn(lo, hi) ==
    /\ input.error.response
    /\ input.error.status # Undefined
    /\ input.error.status >= lo
    /\ input.error.status <= hi

Canonical(text) == Msg("", text, <<>>)

\* C13 (as stated): of what axios and the providers throw, status 401 is
\* wrapped as 'Invalid API key', 429 as 'Rate limit exceeded', 5xx as
\* 'Provider service unavailable', the codes of a refused connection or a
\* DNS failure as 'Unable to connect to weather service', a timeout as
\* 'Request timed out', and every failure matching none of these as
\* '<context>: <original message>'.
C13_CanonicalMessages ==
    (output.op = "caught" /\ input.error \in Throwables) =>
        LET e == input.error
            w == output.wrapped
        IN  /\ StatusIn(401, 401) => w.message = Canonical("Invalid API key")
            /\ StatusIn(429, 429) => w.message = Canonical("Rate limit exceeded")
            /\ StatusIn(500, 599)
               => w.message = Canonical("Provider service unavailable")
            /\ e.code \in {"ECONNREFUSED", "ENOTFOUND"}
               => w.message = Canonical("Unable to connect to weather service")
            /\ e.code = "ETIMEDOUT" => w.message = Canonical("Request timed out")
            /\ ~(\/ StatusIn(401, 401) \/ StatusIn(429, 429)
                 \/ StatusIn(500, 599)
                 \/ e.code \in {"ECONNREFUSED", "ENOTFOUND", "ETIMEDOUT"})
               => w.message = Msg(input.context, e.msg.text, e.msg.arg)

\* C13 (amended): for an Error that is not a WeatherError and whose message
\* does not contain 'City not found', a response status 401 is wrapped as
\* 'Invalid API key', 429 as 'Rate limit exceeded', a status of 500 or more
\* as 'Provider service unavailable'; where the status is none of these and
\* not 404, the codes of a refused connection or a DNS failure give 'Unable
\* to connect to weather service' and the timeout code gives 'Request timed
\* out'; every such failure matching none of these and not of status 404
\* gives '<context>: <original message>'. An Error whose message contains
\* 'City not found' keeps its message; each of these has the thrown error
\* as cause. A WeatherError is returned as it is, and a thrown value that is
\* not an Error gives '<context>: Unknown error occurred' without a cause.
C13_CanonicalMessagesAmended ==
    output.op = "caught" =>
        LET e == input.error
            w == output.wrapped
            byStatus == \/ StatusIn(401, 401) \/ StatusIn(404, 404)
                        \/ StatusIn(429, 429) \/ StatusIn(500, 600)
        IN  /\ w.type = "WeatherError"
            /\ e.type = "WeatherError" => w = e
            /\ e.type = "NonObject"
               => /\ w.message = Msg(input.context, "Unknown error occurred", <<>>)
                  /\ w.cause = NoErr
            /\ ThrownError => w.cause = e
            /\ (ThrownError /\ e.msg.text = "City not found: ")
               => w.message = e.msg
            /\ (ThrownError /\ e.msg.text # "City not found: ") =>
                  /\ StatusIn(401, 401) => w.message = Canonical("Invalid API key")
                  /\ StatusIn(429, 429)
                     => w.message = Canonical("Rate limit exceeded")
                  /\ StatusIn(500, 600)
                     => w.message = Canonical("Provider service unavailable")
                  /\ (~byStatus /\ e.code \in {"ECONNREFUSED", "ENOTFOUND"})
                     => w.message
                          = Canonical("Unable to connect to weather service")
                  /\ (~byStatus /\ e.code = "ETIMEDOUT")
                     => w.message = Canonical("Request timed out")
                  /\ (~byStatus
                      /\ e.code \notin {"ECONNREFUSED", "ENOTFOUND", "ETIMEDOUT"})
                     => w.message = Msg(input.context, e.msg.text, e.msg.arg)

C13_Witness ==
    /\ output.op = "caught"
    /\ input.error = HttpError(500)
    /\ input.context = "getForecast"
    /\ output.wrapped.message = Canonical("Provider service unavailable")

\* C15: isTransientError puts the status rules first: an error with a
\* response of status 429 or 500..599 is transient, and one with a response
\* of any other 4xx status is not, whatever transport code or request it
\* also carries.
C15_StatusRulesFirst ==
    (output.op = "caught" /\ ThrownError) =>
        /\ (StatusIn(429, 429) \/ StatusIn(500, 599)) => output.transient
        /\ (StatusIn(400, 428) \/ StatusIn(430, 499)) => ~output.transient

C15_Witness ==
    /\ output.op = "caught"
    /\ input.error.response
    /\ input.error.status = 404
    /\ input.error.code = "ECONNRESET"
    /\ input.error.request
    /\ ~output.transient

\* C16: isTransientError is true of every error without a response that
\* carries the code of a refused or reset connection, a timeout, a DNS
\* failure or an unreachable network, or that has a request and no code.
C16_TransportFailuresTransient ==
    (output.op = "caught" /\ ThrownError /\ ~input.error.response
     /\ (\/ input.error.code \in {"ECONNREFUSED", "ECONNRESET", "ETIMEDOUT",
                                  "ENOTFOUND", "EAI_AGAIN", "ENETUNREACH"}
         \/ (input.error.request /\ input.error.code = "")))
    => output.transient

C16_Witness ==
    /\ output.op = "caught"
    /\ ~input.error.response
    /\ ~input.error.request
    /\ input.error.code = "ENETUNREACH"
    /\ output.transient

\* the key the documentation gives a request of the city 'lo' on Open-Meteo
DocKey(r) ==
    IF r.method = "getForecast"
    THEN <<"o","p","e","n","-","m","e","t","e","o",":",
           "f","o","r","e","c","a","s","t",":","l","o",":">>
         \o (IF r.days = 3 THEN <<"3">> ELSE <<"5">>)
    ELSE <<"o","p","e","n","-","m","e","t","e","o",":",
           "c","u","r","r","e","n","t",":","l","o">>

\* C19: the spellings 'Lo', ' lo ' and 'LO' of a city give one key: every
\* entry stored for a request of any spelling lies under the key of the
\* lower-cased, trimmed city, and a request of any spelling made while that
\* entry has not expired is served the stored value, which the request of
\* another spelling may have stored, without a provider invocation.
C19_KeyIgnoresCaseAndSpace ==
    [][\A c \in Calls :
          /\ Fetched(c)
             => /\ DocKey(req[c]) \in DOMAIN store'
                /\ store'[DocKey(req[c])].value = outcome'[c].value
                /\ DOMAIN store' = DOMAIN store \cup {DocKey(req[c])}
          /\ (BeginsCall(c) /\ DocKey(req'[c]) \in DOMAIN store
              /\ now <= store[DocKey(req'[c])].expiresAt)
             => /\ pc'[c] = "done"
                /\ lookup'[c] = "hit"
                /\ nPrimary'[c] = 0
                /\ outcome'[c].value = store[DocKey(req'[c])].value]_vars

C19_Witness ==
    \E c \in Calls :
        /\ pc[c] = "done"
        /\ lookup[c] = "hit"
        /\ req[c].method = "getCurrentWeather"
        /\ req[c].city = <<"L","O">>
        /\ outcome[c].value.city = <<" ","l","o"," ">>
        /\ nPrimary[c] = 0

\* C20: cache.get(key) returns the stored value exactly when the key has an
\* entry and now <= expiresAt, and then leaves the store as it is; when the
\* entry exists and now > expiresAt it returns nothing and removes that
\* entry and no other; when there is no entry it returns nothing and leaves
\* the store as it is; in each case it returns.
C20_GetReturnsUnexpired ==
    [][(issued' = issued + 1 /\ input'.op = "get") =>
          LET key == input'.key IN
          /\ output'.op = "get"
          /\ output'.found <=> (key \in DOMAIN store
                                /\ now <= store[key].expiresAt)
          /\ output'.found
             => /\ output'.value = store[key].value
                /\ store' = store
          /\ (key \in DOMAIN store /\ now > store[key].expiresAt)
             => /\ output'.value = NoValue
                /\ DOMAIN store' = DOMAIN store \ {key}
                /\ \A k \in DOMAIN store' : store'[k] = store[k]
          /\ key \notin DOMAIN store
             => /\ output'.value = NoValue
                /\ store' = store]_vars

C20_Witness ==
    /\ input.op = "get"
    /\ output.op = "get"
    /\ output.found
    /\ input.key \in DOMAIN store
    /\ store[input.key].expiresAt = now
    /\ now > 0

\* the lifetime the documentation gives an entry of a category: the one
\* given at construction, else 5 minutes, 30 minutes, 24 hours
DocLifetime(type) ==
    CASE type = CURRENT ->
            IF config.cache.ttl.current # Undefined
            THEN config.cache.ttl.current ELSE 5 * 60 * 1000
      [] type = FORECAST ->
            IF config.cache.ttl.forecast # Undefined
            THEN config.cache.ttl.forecast ELSE 30 * 60 * 1000
      [] type = GEOCODING ->
            IF config.cache.ttl.geocoding # Undefined
            THEN config.cache.ttl.geocoding ELSE 24 * 60 * 60 * 1000

\* C21: cache.set(key, value, category) leaves under the key the value with
\* expiresAt = now + ttl[category], whether or not the key had an entry, and
\* leaves every other entry as it was; ttl[category] is the lifetime given
\* for that category at construction and otherwise 5 minutes for current,
\* 30 minutes for forecast, 24 hours for geocoding, so a lifetime given for
\* one category leaves the other two at their defaults.
C21_SetStoresWithCategoryTtl ==
    [][(issued' = issued + 1 /\ input'.op = "set") =>
          LET key == input'.key IN
          /\ output'.op = "set"
          /\ DOMAIN store' = DOMAIN store \cup {key}
          /\ store'[key] = [value |-> input'.value,
                            expiresAt |-> now + DocLifetime(input'.type)]
          /\ \A k \in DOMAIN store \ {key} : store'[k] = store[k]]_vars

C21_Witness ==
    /\ input.op = "set"
    /\ input.type = FORECAST
    /\ config.cache.ttl.current = 1
    /\ config.cache.ttl.forecast = Undefined
    /\ now = 1
    /\ store[input.key] = [value |-> input.value, expiresAt |-> 1800001]
    /\ Cardinality(DOMAIN store) = 2

\* the number of days the documentation gives a forecast request
DocDays(r) == IF r.days = Undefined THEN 5 ELSE r.days

\* the unexpired forecasts in the store that were fetched for n days
StoredForecasts(n) ==
    {k \in DOMAIN store : /\ store[k].value.kind = "forecast"
                          /\ store[k].value.days = n
                          /\ now <= store[k].expiresAt}

\* C22: a getForecast call is served from the cache exactly when the store
\* holds an unexpired forecast of the city that was fetched for the same
\* number of days, a call without days counting as one for 5 days; it is
\* then given a forecast for that number of days without a provider
\* invocation, and otherwise (in particular when only a forecast for another
\* number of days is stored) it is a miss that invokes the provider.
C22_ForecastKeyedByDays ==
    [][\A c \in Calls :
          (BeginsCall(c) /\ req'[c].method = "getForecast")
          => IF StoredForecasts(DocDays(req'[c])) # {}
             THEN /\ pc'[c] = "done"
                  /\ lookup'[c] = "hit"
                  /\ nPrimary'[c] = 0
                  /\ outcome'[c].kind = "value"
                  /\ outcome'[c].value.kind = "forecast"
                  /\ outcome'[c].value.days = DocDays(req'[c])
                  /\ \E k \in StoredForecasts(DocDays(req'[c])) :
                        outcome'[c].value = store[k].value
             ELSE /\ pc'[c] = "primary"
                  /\ lookup'[c] \in {"miss", "expired"}
                  /\ nPrimary'[c] = 1]_vars

C22_Witness ==
    \E c \in Calls :
        /\ pc[c] = "done"
        /\ lookup[c] = "hit"
        /\ req[c].method = "getForecast"
        /\ req[c].days = Undefined
        /\ outcome[c].value.days = 5
        /\ StoredForecasts(5) # {}
        /\ StoredForecasts(3) = {}

\* C23: clearCache() leaves the store empty whatever it held, expired or
\* not and of either category, so that a cacheable call made while the
\* store is still empty is a miss that invokes the provider; without a cache
\* there is never an entry and clearCache() changes nothing.
C23_ClearCacheEmptiesStore ==
    [][/\ (pc' = pc /\ now' = now) => DOMAIN store' = {}
       /\ ~config.cache.enabled => (DOMAIN store = {} /\ store' = store)
       /\ \A c \in Calls :
             (BeginsCall(c) /\ DOMAIN store = {})
             => /\ pc'[c] = "primary"
                /\ nPrimary'[c] = 1
                /\ lookup'[c] \in {"miss", "bypass"}
                /\ (lookup'[c] = "bypass")
                     = (~config.cache.enabled \/ req'[c].raw)]_vars

C23_Witness ==
    \E c \in Calls :
        /\ config.cache.enabled
        /\ DOMAIN store = {}
        /\ issued = 2
        /\ now = 0
        /\ pc[c] = "primary"
        /\ lookup[c] = "miss"
        /\ \A d \in Calls \ {c} : pc[d] = "idle"

\* the call is between its cache lookup and its provider's answer
InFlight(c) == pc[c] \in {"primary", "fallback"}

\* C24: requests are not deduplicated. A cacheable call begun while another
\* call for the same key is in flight, and before any result is stored
\* under that key, invokes the provider as well; and every cacheable call
\* that fetched writes its own result under its key, replacing whatever
\* another call has stored there since its lookup.
C24_NoRequestDeduplication ==
    [][\A c \in Calls :
          /\ (/\ BeginsCall(c) /\ config.cache.enabled /\ ~req'[c].raw
              /\ cacheKey(req'[c]) \notin DOMAIN store
              /\ \E d \in Calls \ {c} :
                    /\ InFlight(d) /\ ~req[d].raw
                    /\ cacheKey(req[d]) = cacheKey(req'[c]))
             => /\ pc'[c] = "primary"
                /\ lookup'[c] = "miss"
                /\ nPrimary'[c] = 1
          /\ (/\ Fetched(c) /\ config.cache.enabled /\ ~req[c].raw
              /\ cacheKey(req[c]) \in DOMAIN store)
             => /\ lookup[c] \in {"miss", "expired"}
                /\ store'[cacheKey(req[c])]
                     = [value |-> outcome'[c].value,
                        expiresAt |-> now + DocTtl(req[c])]]_vars

\* a call that found nothing under its key is still waiting for its
\* provider while the other call, begun with it, has stored its result there
C24_Witness ==
    \E c \in Calls :
        /\ config.cache.enabled
        /\ pc[c] = "primary"
        /\ lookup[c] = "miss"
        /\ nPrimary[c] = 1
        /\ issued = 2
        /\ cacheKey(req[c]) \in DOMAIN store
        /\ store[cacheKey(req[c])].value.data < now
        /\ \A d \in Calls \ {c} : pc[d] = "idle"

\* the request of the call that moves in this step
Moving(c) == IF pc[c] = "idle" THEN req'[c] ELSE req[c]

\* the value is a result of the kind the request asks for: a forecast for
\* its number of days, or current weather, which from Open-Meteo names the
\* city or the coordinates asked for
Answers(v, r) ==
    IF r.method = "getForecast"
    THEN v.kind = "forecast" /\ v.days = DocDays(r)
    ELSE /\ v.kind = "current"
         /\ v.src = OPEN_METEO
            => v.city = IF r.method = "getCurrentWeather" THEN r.city
                        ELSE <<"5","1",".","5","0","7","4",",",
                               "-","0",".","1","2","7","8">>

\* C25: whatever the interleaving, a step of a request changes no entry but
\* the one under its own key (entries of other keys are neither evicted nor
\* written), a cached value it is given is the one stored under its own
\* key, and the value a cacheable request returns answers that request.
C25_OnlyOwnKeyTouched ==
    [][\A c \in Calls :
          pc'[c] # pc[c]
          => LET r == Moving(c)
                 key == cacheKey(r)
             IN  /\ \A k \in (DOMAIN store \cup DOMAIN store') \ {key} :
                       /\ k \in DOMAIN store
                       /\ k \in DOMAIN store'
                       /\ store'[k] = store[k]
                 /\ (pc'[c] = "done" /\ lookup'[c] = "hit")
                    => /\ key \in DOMAIN store
                       /\ outcome'[c].value = store[key].value
                 /\ (pc'[c] = "done" /\ outcome'[c].kind = "value" /\ ~r.raw)
                    => Answers(outcome'[c].value, r)]_vars

C25_Witness ==
    \E c \in Calls :
        /\ pc[c] = "done"
        /\ lookup[c] = "miss"
        /\ outcome[c].kind = "value"
        /\ req[c].method = "getWeatherByCoords"
        /\ store[cacheKey(req[c])].value = outcome[c].value
        /\ \E k \in DOMAIN store \ {cacheKey(req[c])} :
              /\ store[k].value.kind = "current"
              /\ now > store[k].expiresAt

----------------------------------------------------------------------------
(* OpenWeatherProvider's normalisation, applied to upstream bodies.
   Wind speeds are in hundredths of m/s on input and in tenths of km/h on
   output; accumulations are in hundredths of mm on input and in tenths of
   mm on output; clock readings are in seconds. The inputs have two decimals
   and never put a product or a sum on a half of the last digit kept, so
   the floating-point result is the exact one. *)

\* Math.round cutting the fraction off
Round_down(num, den) == num \div den

\* Math.round(num / den): the nearest integer, a half going upward
Round(num, den) == (2 * num + den) \div (2 * den)

\* mapToCurrentWeather leaving the wind speed in m/s (tenths)
mapToCurrentWeather_metresPerSecond(data) ==
    [windSpeed |-> Round(data.wind.speed * 10, 100),
     windGust |-> IF data.wind.gust # Undefined /\ data.wind.gust # 0
                  THEN Round(data.wind.gust * 10, 100) ELSE Undefined,
     isDay |-> data.dt * 1000 >= data.sys.sunrise * 1000
               /\ data.dt * 1000 < data.sys.sunset * 1000,
     units |-> [windSpeed |-> "km/h"]]

\* mapToCurrentWeather counting the instant of sunset as day
mapToCurrentWeather_dayAtSunset(data) ==
    [windSpeed |-> Round(data.wind.speed * 36, 100),
     windGust |-> IF data.wind.gust # Undefined /\ data.wind.gust # 0
                  THEN Round(data.wind.gust * 36, 100) ELSE Undefined,
     isDay |-> data.dt * 1000 >= data.sys.sunrise * 1000
               /\ data.dt * 1000 <= data.sys.sunset * 1000,
     units |-> [windSpeed |-> "km/h"]]

\* OpenWeatherProvider.mapToCurrentWeather: the fields computed from the
\* body (the others are copied from it)
mapToCurrentWeather(data) ==
    LET nowMs == data.dt * 1000
        sunrise == data.sys.sunrise * 1000
        sunset == data.sys.sunset * 1000
        \* in thousandths of km/h
        windSpeedKmh == data.wind.speed * 36
        windGustKmh == IF data.wind.gust # Undefined /\ data.wind.gust # 0
                       THEN data.wind.gust * 36 ELSE Undefined
    IN  [windSpeed |-> Round(windSpeedKmh, 100),
         windGust |-> IF windGustKmh # Undefined
                      THEN Round(windGustKmh, 100) ELSE Undefined,
         isDay |-> nowMs >= sunrise /\ nowMs < sunset,
         units |-> [windSpeed |-> "km/h"]]

\* item.dt_txt.split(" ")[0], the text being a sequence of pieces
RECURSIVE SplitFirst(_)
SplitFirst(text) ==
    IF text = <<>> \/ Head(text) = " " THEN <<>>
    ELSE <<Head(text)>> \o SplitFirst(Tail(text))

Range(seq) == {seq[i] : i \in 1..Len(seq)}

\* the keys of a Map filled by going through seq, in insertion order
RECURSIVE MapKeys(_)
MapKeys(seq) ==
    IF seq = <<>> THEN <<>>
    ELSE LET before == MapKeys(SubSeq(seq, 1, Len(seq) - 1))
             last == seq[Len(seq)]
         IN  IF last \in Range(before) THEN before ELSE Append(before, last)

\* every sample pushed to every date
DaySamples_all(list, date) == list

\* the samples pushed to byDate.get(date), in list order
DaySamples(list, date) ==
    SelectSeq(list, LAMBDA item : SplitFirst(item.dt_txt) = date)

\* item.rain?.["3h"] ?? 0
OrZero(x) == IF x = Undefined THEN 0 ELSE x

RECURSIVE Total(_)
Total(arr) == IF arr = <<>> THEN 0 ELSE Head(arr) + Total(Tail(arr))

\* sum: Math.round(arr.reduce((a, b) => a + b, 0) * 10) / 10
sum(arr) == Round(Total(arr), 10)

\* getMostFrequent taking the last of the descriptions that tie
RECURSIVE MostFrequentFrom_lastOfTies(_, _, _, _)
MostFrequentFrom_lastOfTies(descriptions, keys, maxCount, result) ==
    IF keys = <<>> THEN result
    ELSE LET count == Cardinality({i \in 1..Len(descriptions) :
                                     descriptions[i] = Head(keys)})
         IN  IF count >= maxCount
             THEN MostFrequentFrom_lastOfTies(descriptions, Tail(keys), count,
                                              Head(keys))
             ELSE MostFrequentFrom_lastOfTies(descriptions, Tail(keys),
                                              maxCount, result)

\* getMostFrequent: the loop over the counts, in insertion order
RECURSIVE MostFrequentFrom(_, _, _, _)
MostFrequentFrom(descriptions, keys, maxCount, result) ==
    IF keys = <<>> THEN result
    ELSE LET count == Cardinality({i \in 1..Len(descriptions) :
                                     descriptions[i] = Head(keys)})
         IN  IF count > maxCount
             THEN MostFrequentFrom(descriptions, Tail(keys), count, Head(keys))
             ELSE MostFrequentFrom(descriptions, Tail(keys), maxCount, result)

\* OpenWeatherProvider.getMostFrequent
getMostFrequent(descriptions) ==
    MostFrequentFrom(descriptions, MapKeys(descriptions), 0, descriptions[1])

\* Math.max(...data.temps)
MathMax(temps) == CHOOSE m \in Range(temps) : \A t \in Range(temps) : t <= m

\* Math.min(...data.temps)
MathMin(temps) == CHOOSE m \in Range(temps) : \A t \in Range(temps) : m <= t

\* the ForecastDay pushed for a date
ForecastDay(list, date) ==
    LET data == DaySamples(list, date)
        totalRain == sum([i \in 1..Len(data) |-> OrZero(data[i].rain)])
        totalSnow == sum([i \in 1..Len(data) |-> OrZero(data[i].snow)])
    IN  [date |-> date,
         minTemp |-> MathMin([i \in 1..Len(data) |-> data[i].main.temp]),
         maxTemp |-> MathMax([i \in 1..Len(data) |-> data[i].main.temp]),
         description |->
             getMostFrequent([i \in 1..Len(data) |-> data[i].description]),
         totalRain |-> IF totalRain > 0 THEN totalRain ELSE Undefined,
         totalSnow |-> IF totalSnow > 0 THEN totalSnow ELSE Undefined]

\* the keys of byDate after the first loop of aggregateForecast
ByDate(list) == MapKeys([i \in 1..Len(list) |-> SplitFirst(list[i].dt_txt)])

\* the loop over byDate without its break
RECURSIVE ForecastDays_noBreak(_, _, _, _)
ForecastDays_noBreak(list, days, dates, result) ==
    IF dates = <<>> THEN result
    ELSE ForecastDays_noBreak(list, days, Tail(dates),
                              Append(result, ForecastDay(list, Head(dates))))

\* aggregateForecast: the loop over byDate
RECURSIVE ForecastDays(_, _, _, _)
ForecastDays(list, days, dates, result) ==
    IF dates = <<>> \/ Len(result) >= days THEN result
    ELSE ForecastDays(list, days, Tail(dates),
                      Append(result, ForecastDay(list, Head(dates))))

\* OpenWeatherProvider.aggregateForecast
aggregateForecast(list, days) == ForecastDays(list, days, ByDate(list), <<>>)

\* bodies of /weather: wind up to 5.2 m/s, gust absent, zero or present, the
\* observation before, at or after a sunrise and a sunset
MaxSpeed == 520
CurrentBodies ==
    {[dt |-> t, sys |-> [sunrise |-> r, sunset |-> 3],
      wind |-> [speed |-> s, gust |-> g]] :
        t \in 1..4, r \in {2, 3}, s \in 0..MaxSpeed, g \in {Undefined, 0, 731}}

\* the samples of /forecast: on three dates, listed here out of calendar
\* order, each one of four three-hourly readings
SampleDates == {"2024-01-02", "2024-01-01", "2024-01-03"}
Readings ==
    {[time |-> "00:00:00", temp |-> 10, rain |-> Undefined, snow |-> Undefined,
      description |-> "clear sky"],
     [time |-> "03:00:00", temp |-> 15, rain |-> 4, snow |-> Undefined,
      description |-> "light rain"],
     [time |-> "06:00:00", temp |-> -3, rain |-> 12, snow |-> 20,
      description |-> "light snow"],
     [time |-> "09:00:00", temp |-> 12, rain |-> 0, snow |-> Undefined,
      description |-> "clear sky"]}
Sample(date, time, temp, rain, snow, description) ==
    [dt_txt |-> <<date, " ", time>>, main |-> [temp |-> temp],
     rain |-> rain, snow |-> snow, description |-> description]
Samples ==
    {Sample(d, r.time, r.temp, r.rain, r.snow, r.description) :
        d \in SampleDates, r \in Readings}

MaxSamples == 3
SampleLists == UNION {[1..n -> Samples] : n \in 0..MaxSamples}

\* one day of eight samples
ExampleTemps == <<10, 12, 15, 14, 13, 11, 9, 8>>
ExampleTimes ==
    <<"00:00:00", "03:00:00", "06:00:00", "09:00:00", "12:00:00",
      "15:00:00", "18:00:00", "21:00:00">>
ExampleDescriptions ==
    <<"mist", "light rain", "light rain", "clear sky", "clear sky",
      "mist", "light rain", "clear sky">>
ExampleDay ==
    [i \in 1..8 |->
        Sample("2024-01-02", ExampleTimes[i], ExampleTemps[i],
               IF i = 3 THEN 4 ELSE Undefined, Undefined,
               ExampleDescriptions[i])]

\* options?.days ?? 5
DaysAsked == {0, 1, 2, 5}

InitOpenWeather ==
    /\ Constructed([DefaultConfig EXCEPT !.provider = OPENWEATHER,
                                         !.apiKey = "key"])
    /\ \/ \E data \in CurrentBodies :
             input = [op |-> "mapToCurrentWeather", data |-> data]
       \/ \E list \in SampleLists \cup {ExampleDay}, days \in DaysAsked :
             input = [op |-> "aggregateForecast", list |-> list, days |-> days]
    /\ output = NoOutput

\* OpenWeatherProvider.mapToCurrentWeather(response.data)
MapToCurrentWeather ==
    /\ input.op = "mapToCurrentWeather"
    /\ output = NoOutput
    /\ output' = [op |-> "mapToCurrentWeather",
                  value |-> mapToCurrentWeather(input.data)]
    /\ UNCHANGED <<config, ctorError, store, now, pc, req, lookup, primErr,
                   fbErr, nPrimary, nFallback, outcome, issued, input>>
    /\ UNCHANGED nGeocode

\* OpenWeatherProvider.aggregateForecast(response.data.list, days)
AggregateForecast ==
    /\ input.op = "aggregateForecast"
    /\ output = NoOutput
    /\ output' = [op |-> "aggregateForecast",
                  value |-> aggregateForecast(input.list, input.days)]
    /\ UNCHANGED <<config, ctorError, store, now, pc, req, lookup, primErr,
                   fbErr, nPrimary, nFallback, outcome, issued, input>>
    /\ UNCHANGED nGeocode

NextOpenWeather == MapToCurrentWeather \/ AggregateForecast

SpecOpenWeather == InitOpenWeather /\ [][NextOpenWeather]_vars

\* C26: the wind speed of a normalised OpenWeather observation is the
\* upstream speed in m/s times 3.6, to the nearest tenth of a km/h (5 m/s
\* gives 18.0 km/h), and the unit label of windSpeed is 'km/h'.
C26_WindSpeedInKmh ==
    output.op = "mapToCurrentWeather"
    => LET speed == input.data.wind.speed
           windSpeed == output.value.windSpeed
       IN  /\ 100 * windSpeed - 50 <= 36 * speed
           /\ 36 * speed < 100 * windSpeed + 50
           /\ speed = 500 => windSpeed = 180
           /\ output.value.units.windSpeed = "km/h"

C26_Witness ==
    /\ output.op = "mapToCurrentWeather"
    /\ input.data.wind.speed = 500
    /\ output.value.windSpeed = 180
    /\ output.value.units.windSpeed = "km/h"

\* the date of a sample: the piece of dt_txt before the blank
DateOf(item) == <<item.dt_txt[1]>>

\* the place in the list of the first sample of a date
FirstOf(list, date) ==
    CHOOSE i \in 1..Len(list) :
        /\ DateOf(list[i]) = date
        /\ \A j \in 1..(i - 1) : DateOf(list[j]) # date

\* the samples of the list that are of the date
Of(list, date) == {i \in 1..Len(list) : DateOf(list[i]) = date}

\* C27: aggregation returns one day per distinct date of the samples, in the
\* order in which the dates first occur in the list, cut to the first `days`
\* dates: the result has min(days, number of distinct dates) days, of
\* distinct dates, a date being returned only with every date that first
\* occurs before it; and what a returned day reports is taken from samples
\* of its own date.
C27_DaysInFirstOccurrenceOrder ==
    output.op = "aggregateForecast"
    => LET list == input.list
           result == output.value
           dates == {DateOf(list[i]) : i \in 1..Len(list)}
       IN  /\ Len(result) = IF input.days < Cardinality(dates)
                            THEN input.days ELSE Cardinality(dates)
           /\ \A n \in 1..Len(result) :
                /\ result[n].date \in dates
                /\ \A m \in 1..(n - 1) :
                     FirstOf(list, result[m].date) < FirstOf(list, result[n].date)
                /\ \A d \in dates :
                     FirstOf(list, d) < FirstOf(list, result[n].date)
                     => \E m \in 1..(n - 1) : result[m].date = d
                /\ \E i \in Of(list, result[n].date) :
                     list[i].main.temp = result[n].minTemp
                /\ \E i \in Of(list, result[n].date) :
                     list[i].main.temp = result[n].maxTemp
                /\ \E i \in Of(list, result[n].date) :
                     list[i].description = result[n].description

\* three dates in the list, the first two returned in list order, which is
\* not calendar order
C27_Witness ==
    /\ output.op = "aggregateForecast"
    /\ input.days = 2
    /\ Len(input.list) = 3
    /\ Len(output.value) = 2
    /\ output.value[1].date = <<"2024-01-02">>
    /\ output.value[2].date = <<"2024-01-01">>
    /\ DateOf(input.list[3]) = <<"2024-01-03">>

\* C28: minTemp of a returned day is the least and maxTemp the greatest of
\* the temperatures of the samples of that date and of no others, however
\* the dates are interleaved in the list; the samples 10, 12, 15, 14, 13,
\* 11, 9, 8 of one day give 8 and 15.
C28_MinMaxOfTheDay ==
    output.op = "aggregateForecast"
    => LET list == input.list
           result == output.value
       IN  /\ \A n \in 1..Len(result) :
                LET temps == {list[i].main.temp : i \in Of(list, result[n].date)}
                IN  /\ result[n].minTemp \in temps
                    /\ result[n].maxTemp \in temps
                    /\ \A t \in temps : /\ result[n].minTemp <= t
                                        /\ t <= result[n].maxTemp
           /\ (list = ExampleDay /\ input.days > 0)
              => /\ result[1].minTemp = 8
                 /\ result[1].maxTemp = 15

\* a day whose samples lie on both sides of a sample of another date that
\* is colder than all of them
C28_Witness ==
    /\ output.op = "aggregateForecast"
    /\ Len(input.list) = 3
    /\ DateOf(input.list[1]) = DateOf(input.list[3])
    /\ DateOf(input.list[2]) # DateOf(input.list[1])
    /\ input.list[2].main.temp = -3
    /\ Len(output.value) = 2
    /\ output.value[1].minTemp = 10
    /\ output.value[1].maxTemp = 15

\* the sum of f over the places S
RECURSIVE SumOver(_, _)
SumOver(f, S) ==
    IF S = {} THEN 0
    ELSE LET i == CHOOSE j \in S : TRUE IN f[i] + SumOver(f, S \ {i})

\* the rain and the snow of a date, in hundredths of mm, a sample without
\* the field counting for nothing
RainOf(list, date) ==
    SumOver([i \in 1..Len(list) |->
                IF list[i].rain = Undefined THEN 0 ELSE list[i].rain],
            Of(list, date))
SnowOf(list, date) ==
    SumOver([i \in 1..Len(list) |->
                IF list[i].snow = Undefined THEN 0 ELSE list[i].snow],
            Of(list, date))

\* total, in tenths, is amount, in hundredths, to the nearest tenth
NearestTenth(total, amount) ==
    10 * total - 5 <= amount /\ amount < 10 * total + 5

\* C29 as stated: totalRain, and likewise totalSnow, of a returned day is
\* present exactly when the sum of the accumulations of the day's samples is
\* greater than 0, and is then that sum to the nearest tenth.
C29_TotalsPresentWhenPositive ==
    output.op = "aggregateForecast"
    => \A n \in 1..Len(output.value) :
          LET day == output.value[n]
              rain == RainOf(input.list, day.date)
              snow == SnowOf(input.list, day.date)
          IN  /\ (day.totalRain # Undefined) = (rain > 0)
              /\ day.totalRain # Undefined => NearestTenth(day.totalRain, rain)
              /\ (day.totalSnow # Undefined) = (snow > 0)
              /\ day.totalSnow # Undefined => NearestTenth(day.totalSnow, snow)

\* C29 amended: totalRain, and likewise totalSnow, of a returned day is
\* present exactly when the sum of the accumulations of the day's samples,
\* rounded to one decimal, is greater than 0, which is when the sum is at
\* least 0.05; it is then that rounded sum and never zero. It is absent when
\* the sum is 0, as when no sample has the field, and when the sum is
\* positive but below 0.05.
C29_TotalsPresentWhenRoundedPositive ==
    output.op = "aggregateForecast"
    => \A n \in 1..Len(output.value) :
          LET day == output.value[n]
              rain == RainOf(input.list, day.date)
              snow == SnowOf(input.list, day.date)
          IN  /\ (day.totalRain # Undefined) = (rain >= 5)
              /\ day.totalRain # Undefined
                 => day.totalRain > 0 /\ NearestTenth(day.totalRain, rain)
              /\ (day.totalSnow # Undefined) = (snow >= 5)
              /\ day.totalSnow # Undefined
                 => day.totalSnow > 0 /\ NearestTenth(day.totalSnow, snow)

\* a day of 0.04 mm of rain without totalRain, and a day of 0.04 + 0.12 mm
\* with totalRain 0.2 and, for 0.20 mm of snow, totalSnow 0.2
C29_Witness ==
    /\ output.op = "aggregateForecast"
    /\ Len(output.value) = 2
    /\ RainOf(input.list, output.value[1].date) = 4
    /\ output.value[1].totalRain = Undefined
    /\ output.value[1].totalSnow = Undefined
    /\ RainOf(input.list, output.value[2].date) = 16
    /\ output.value[2].totalRain = 2
    /\ output.value[2].totalSnow = 2

\* how often the description occurs among the samples of the date
CountOf(list, date, description) ==
    Cardinality({i \in Of(list, date) : list[i].description = description})

\* the place of the first sample of the date with the description
FirstWith(list, date, description) ==
    CHOOSE i \in Of(list, date) :
        /\ list[i].description = description
        /\ \A j \in Of(list, date) :
              list[j].description = description => i <= j

\* C30: the description of a returned day occurs among the day's samples at
\* least as often as any other description does, and of the descriptions
\* that occur as often as it, it is the one whose first sample of the day
\* comes first in the list.
C30_MostFrequentDescription ==
    output.op = "aggregateForecast"
    => \A n \in 1..Len(output.value) :
          LET list == input.list
              date == output.value[n].date
              chosen == output.value[n].description
          IN  /\ CountOf(list, date, chosen) > 0
              /\ \A i \in Of(list, date) :
                    LET other == list[i].description
                    IN  /\ CountOf(list, date, other)
                             <= CountOf(list, date, chosen)
                        /\ CountOf(list, date, other)
                             = CountOf(list, date, chosen)
                           => FirstWith(list, date, chosen)
                                <= FirstWith(list, date, other)

\* 'light rain' and 'clear sky' occur three times each, after a 'mist'
\* that occurs twice
C30_Witness ==
    /\ output.op = "aggregateForecast"
    /\ input.list = ExampleDay
    /\ Len(output.value) = 1
    /\ output.value[1].description = "light rain"

\* C31: isDay of a normalised OpenWeather observation is true exactly when
\* sunrise <= observation time < sunset: an observation at the instant of
\* sunrise is day, one at the instant of sunset is night.
C31_IsDayBetweenSunriseAndSunset ==
    output.op = "mapToCurrentWeather"
    => LET dt == input.data.dt
           sunrise == input.data.sys.sunrise
           sunset == input.data.sys.sunset
       IN  /\ output.value.isDay = (sunrise <= dt /\ dt < sunset)
           /\ (dt = sunrise /\ sunrise < sunset) => output.value.isDay
           /\ dt = sunset => ~output.value.isDay

C31_Witness ==
    /\ output.op = "mapToCurrentWeather"
    /\ input.data.sys.sunrise = 2
    /\ input.data.sys.sunset = 3
    /\ input.data.dt = 3
    /\ ~output.value.isDay

----------------------------------------------------------------------------
(* OpenMeteoProvider's city methods, one await at a time: the requests
   sent upstream are recorded in the order they are sent *)

\* the requests axios.get sends
GeocodingRequest(city) ==
    [endpoint |-> "geocoding", name |-> city, latitude |-> 0, longitude |-> 0]
ForecastRequest(coords) ==
    [endpoint |-> "forecast", name |-> <<>>, latitude |-> coords.latitude,
     longitude |-> coords.longitude]

\* nothing returned or thrown yet
Unsettled == [ok |-> FALSE, value |-> NoValue, error |-> NoErr]

\* where a city method stands: op is "geocoding" or "forecast" while the
\* answer of that request is awaited, "returned" or "threw" at the end
Position(op, calls, geo, result) ==
    [op |-> op, calls |-> calls, geo |-> geo, result |-> result]

InitOpenMeteo ==
    /\ Constructed(DefaultConfig)
    /\ \/ \E city \in CityVariants, raw \in BOOLEAN :
             input = [op |-> "getCurrentWeatherByCity", city |-> city,
                      raw |-> raw, days |-> Undefined]
       \/ \E city \in CityVariants, days \in DaysVariants :
             input = [op |-> "getForecastByCity", city |-> city,
                      raw |-> FALSE, days |-> days]
    /\ output = NoOutput

\* the city method is called: up to `await this.geocode(city)`, which sends
\* the geocoding request
OMCalled ==
    /\ output = NoOutput
    /\ input.op \in {"getCurrentWeatherByCity", "getForecastByCity"}
    /\ output' = Position("geocoding", <<GeocodingRequest(input.city)>>,
                          NoCall, Unsettled)
    /\ UNCHANGED <<config, ctorError, store, now, pc, req, lookup, primErr,
                   fbErr, nPrimary, nFallback, outcome, issued, input>>
    /\ UNCHANGED nGeocode

\* the geocoding request is answered: geocode throws, or returns the
\* coordinates with which the weather or forecast request is sent
OMGeocoded ==
    /\ output.op = "geocoding"
    /\ \E g \in GeoOutcomes :
          LET coordinates == OM_geocode(input.city, g) IN
          output' = IF ~coordinates.ok
                    THEN Position("threw", output.calls, g,
                                  Throw(coordinates.error))
                    ELSE Position("forecast",
                                  Append(output.calls,
                                         ForecastRequest(coordinates.value)),
                                  g, Unsettled)
    /\ UNCHANGED <<config, ctorError, store, now, pc, req, lookup, primErr,
                   fbErr, nPrimary, nFallback, outcome, issued, input>>
    /\ UNCHANGED nGeocode

\* the weather or forecast request is answered: the method returns or throws
OMFetched ==
    /\ output.op = "forecast"
    /\ \E n \in NetOutcomes(now) :
          LET up == [geo |-> output.geo, net |-> n]
              r == IF input.op = "getCurrentWeatherByCity"
                   THEN OM_getCurrentWeatherByCity(input.city, input.raw, up)
                   ELSE OM_getForecastByCity(input.city, input.days, up)
          IN  output' = Position(IF r.ok THEN "returned" ELSE "threw",
                                 output.calls, output.geo, r)
    /\ UNCHANGED <<config, ctorError, store, now, pc, req, lookup, primErr,
                   fbErr, nPrimary, nFallback, outcome, issued, input>>
    /\ UNCHANGED nGeocode

NextOpenMeteo == OMCalled \/ OMGeocoded \/ OMFetched

SpecOpenMeteo == InitOpenMeteo /\ [][NextOpenMeteo]_vars

\* C32: in a non-raw getCurrentWeatherByCity(city) of Open-Meteo the first
\* request sent is the geocoding request for the city, the weather request
\* is the second and is sent only when the geocoding request was answered
\* with a result, for the coordinates of that result; and the weather
\* returned names the city as the caller wrote it, not the 'lat,lon' label.
C32_GeocodeThenFetchKeepsCity ==
    (input.op = "getCurrentWeatherByCity" /\ ~input.raw /\ output # NoOutput)
    => /\ Len(output.calls) \in {1, 2}
       /\ output.calls[1].endpoint = "geocoding"
       /\ output.calls[1].name = input.city
       /\ Len(output.calls) = 2
          => /\ output.calls[2].endpoint = "forecast"
             /\ output.geo.ok
             /\ output.geo.body > 0
             /\ output.calls[2].latitude = 5150742
             /\ output.calls[2].longitude = -12776
       /\ output.op = "returned"
          => /\ Len(output.calls) = 2
             /\ output.result.value.kind = "current"
             /\ output.result.value.city = input.city
             /\ output.result.value.city
                  # <<"5","1",".","5","0","7","4",",","-","0",".","1","2","7","8">>

C32_Witness ==
    /\ input.op = "getCurrentWeatherByCity"
    /\ ~input.raw
    /\ input.city = <<" ","l","o"," ">>
    /\ output.op = "returned"
    /\ Len(output.calls) = 2
    /\ output.result.value.city = <<" ","l","o"," ">>

\* C33: when the geocoding request is answered without results, the
\* property absent or the list empty, geocode throws the Error 'City not
\* found: <city>' with the city as the caller wrote it, and no weather or
\* forecast request is sent; when it is answered with results, the request
\* that follows is for the latitude and longitude of the first of them.
C33_NoResultsIsCityNotFound ==
    (output # NoOutput /\ output.geo.ok)
    => IF output.geo.body = Undefined \/ output.geo.body = 0
       THEN /\ output.op = "threw"
            /\ output.result.error.type = "Error"
            /\ output.result.error.msg.text = "City not found: "
            /\ output.result.error.msg.arg = input.city
            /\ Len(output.calls) = 1
            /\ output.calls[1].endpoint = "geocoding"
       ELSE /\ Len(output.calls) = 2
            /\ output.calls[2].endpoint = "forecast"
            /\ output.calls[2].latitude = 5150742
            /\ output.calls[2].longitude = -12776

C33_Witness ==
    /\ input.op = "getForecastByCity"
    /\ input.city = <<"L","O">>
    /\ output.op = "threw"
    /\ output.geo.ok
    /\ output.geo.body = Undefined
    /\ output.result.error.msg.arg = <<"L","O">>
    /\ Len(output.calls) = 1

\* C34: with caching enabled and Open-Meteo as primary provider, a city
\* request whose weather entry was stored by an earlier request for the city
\* and has expired, well within the 24 hours of the geocoding category, is
\* answered without a geocoding request.
C34_GeocodingNotRepeated ==
    [][\A c \in Calls :
          (/\ config.cache.enabled /\ config.provider = OPEN_METEO
           /\ pc[c] = "primary" /\ pc'[c] # "primary"
           /\ lookup[c] = "expired"
           /\ req[c].method \in {"getCurrentWeather", "getForecast"}
           /\ now < 24 * 60 * 60 * 1000)
          => nGeocode'[c] = 0]_vars

\* C35: expiration is lazy. An entry leaves the store or changes only in a
\* call of get or has on its own key once it has expired, of set or delete
\* on its own key, or of clear; the passing of time and every other call
\* leave it where it is, expired or not, and size counts it.
C35_ExpirationIsLazy ==
    [][/\ \A k \in DOMAIN store :
             (k \notin DOMAIN store' \/ store'[k] # store[k])
             => /\ issued' = issued + 1
                /\ \/ /\ input'.op \in {"get", "has"}
                      /\ input'.key = k
                      /\ now > store[k].expiresAt
                   \/ input'.op \in {"set", "delete"} /\ input'.key = k
                   \/ input'.op = "clear"
       /\ now' # now => store' = store
       /\ (issued' = issued + 1 /\ input'.op = "size")
          => /\ store' = store
             /\ output'.value = Cardinality(DOMAIN store)]_vars

\* size counts two entries of which one has expired
C35_Witness ==
    /\ input.op = "size"
    /\ output.op = "size"
    /\ output.value = 2
    /\ Cardinality(DOMAIN store) = 2
    /\ \E k \in DOMAIN store : now > store[k].expiresAt

\* C36: expiration does not slide. A call served from the cache leaves the
\* whole store as it was, the expiry of the entry it was served included;
\* every entry expires at the time its value was fetched plus the lifetime
\* of its category; and a call finds the entry of its key exactly while
\* now <= that time, however often the entry was read before.
C36_ExpirationDoesNotSlide ==
    [][/\ \A c \in Calls :
             /\ (BeginsCall(c) /\ lookup'[c] = "hit") => store' = store
             /\ (BeginsCall(c) /\ config.cache.enabled /\ ~req'[c].raw
                 /\ cacheKey(req'[c]) \in DOMAIN store)
                => (lookup'[c] = "hit")
                     = (now <= store[cacheKey(req'[c])].value.data
                                 + DocTtl(req'[c]))
       /\ \A k \in DOMAIN store :
             store[k].expiresAt
               = store[k].value.data
                   + (IF store[k].value.kind = "forecast"
                      THEN DocLifetime(FORECAST) ELSE DocLifetime(CURRENT))]_vars

\* an entry is read at the last instant of its life
C36_Witness ==
    \E c \in Calls :
        /\ pc[c] = "done"
        /\ lookup[c] = "hit"
        /\ issued = 2
        /\ now > outcome[c].value.data
        /\ now = outcome[c].value.data + DocTtl(req[c])
        /\ store[cacheKey(req[c])].expiresAt = now

----------------------------------------------------------------------------
(* clearCache() called while requests are in flight: the last call of it is
   noted together with the number of requests begun by then *)

\* LotusWeather.clearCache
ClearCacheNoted ==
    /\ ctorError = ""
    /\ NoneSettled
    /\ store' = IF HasCache THEN CacheClear(store) ELSE store
    /\ input' = [op |-> "clearCache"]
    /\ output' = [op |-> "clearCache", issued |-> issued]
    /\ UNCHANGED <<config, ctorError, now, pc, req, lookup, primErr, fbErr,
                   nPrimary, nFallback, outcome, issued>>
    /\ UNCHANGED nGeocode

NextClear ==
    \/ \E c \in Calls : GetCurrentWeatherOfVariant(c)
    \/ \E c \in Calls : PrimarySettles(c)
    \/ \E c \in Calls : Resume(c)
    \/ ClearCacheNoted
    \/ Tick

SpecClear == InitKeys /\ [][NextClear]_vars

\* no request has begun since clearCache() last ran
NoneBegunSinceClear == output.op = "clearCache" /\ output.issued = issued

\* C37: a cacheable request that missed the cache before clearCache() ran
\* and whose provider answers after it still writes its result, so that the
\* store is not empty although no request has begun since the clear; and
\* the entry serves the next request for its key as a hit while it has not
\* expired.
C37_ClearDoesNotCancelInFlightWrite ==
    [][\A c \in Calls :
          /\ (Fetched(c) /\ NoneBegunSinceClear)
             => /\ lookup[c] \in {"miss", "expired"}
                /\ DocKey(req[c]) \in DOMAIN store'
                /\ store'[DocKey(req[c])]
                     = [value |-> outcome'[c].value,
                        expiresAt |-> now + DocTtl(req[c])]
          /\ (BeginsCall(c) /\ NoneBegunSinceClear
              /\ DocKey(req'[c]) \in DOMAIN store
              /\ now <= store[DocKey(req'[c])].expiresAt)
             => /\ lookup'[c] = "hit"
                /\ nPrimary'[c] = 0
                /\ outcome'[c].value = store[DocKey(req'[c])].value]_vars

\* the store holds an entry, every caller has resumed, and no request has
\* begun since the store was cleared
C37_Witness ==
    /\ NoneBegunSinceClear
    /\ DOMAIN store # {}
    /\ \A c \in Calls : pc[c] = "idle"
    /\ \A k \in DOMAIN store : now <= store[k].expiresAt

----------------------------------------------------------------------------
(* Current weather asked by coordinates and by a city written as a
   coordinate label *)

\* the 4-decimal label of 51.50742, -0.12776
CoordLabel == <<"5","1",".","5","0","7","4",",","-","0",".","1","2","7","8">>

\* LotusWeather.getCurrentWeather(city), the city being the label
GetCurrentWeatherOfLabel(c) ==
    Begin(c, Request("getCurrentWeather", CoordLabel, 0, 0, FALSE, Undefined))

\* LotusWeather.getWeatherByCoords(coords), for two coordinate pairs that
\* round to the label and one that does not
GetWeatherByCoordsNear(c) ==
    \E co \in {[lat |-> 5150742, lon |-> -12776],
               [lat |-> 5150739, lon |-> -12784],
               [lat |-> 5150751, lon |-> -12776]} :
        Begin(c, Request("getWeatherByCoords", <<>>, co.lat, co.lon, FALSE,
                         Undefined))

NextCoords ==
    \/ \E c \in Calls : GetCurrentWeatherOfLabel(c)
    \/ \E c \in Calls : GetWeatherByCoordsNear(c)
    \/ \E c \in Calls : PrimarySettles(c)
    \/ \E c \in Calls : Resume(c)
    \/ Tick

SpecCoords == InitKeys /\ [][NextCoords]_vars

\* the request is for the label: the city written as the label, or
\* coordinates that round to it
ForLabel(r) ==
    \/ r.method = "getCurrentWeather" /\ r.city = CoordLabel
    \/ /\ r.method = "getWeatherByCoords"
       /\ r.lat \in {5150742, 5150739}
       /\ r.lon \in {-12776, -12784}

LabelKey ==
    <<"o","p","e","n","-","m","e","t","e","o",":",
      "c","u","r","r","e","n","t",":">> \o CoordLabel

\* C38: getCurrentWeather(s) for a city written as the 4-decimal label s and
\* getWeatherByCoords for any coordinates that round to s use one key of
\* the 'current' category: each stores its result under it, and each is
\* served the entry found there while it has not expired, which another of
\* them may have stored, without a provider invocation; coordinates that
\* round to another label do not touch that key.
C38_CoordsShareCurrentKeySpace ==
    [][\A c \in Calls :
          /\ (Fetched(c) /\ ForLabel(req[c]))
             => /\ LabelKey \in DOMAIN store'
                /\ store'[LabelKey].value = outcome'[c].value
                /\ DOMAIN store' = DOMAIN store \cup {LabelKey}
          /\ (BeginsCall(c) /\ ForLabel(req'[c]) /\ LabelKey \in DOMAIN store
              /\ now <= store[LabelKey].expiresAt)
             => /\ pc'[c] = "done"
                /\ lookup'[c] = "hit"
                /\ nPrimary'[c] = 0
                /\ outcome'[c].value = store[LabelKey].value
          /\ (pc'[c] # pc[c] /\ ~ForLabel(Moving(c)) /\ pc'[c] # "idle")
             => /\ (LabelKey \in DOMAIN store') = (LabelKey \in DOMAIN store)
                /\ (pc'[c] = "done" /\ outcome'[c].kind = "value")
                   => outcome'[c].value.city # CoordLabel]_vars

\* a request by the second pair of coordinates is served the entry found
\* under the key of the label
C38_Witness ==
    \E c \in Calls :
        /\ pc[c] = "done"
        /\ lookup[c] = "hit"
        /\ nPrimary[c] = 0
        /\ req[c].method = "getWeatherByCoords"
        /\ req[c].lat = 5150739
        /\ outcome[c].value = store[LabelKey].value
        /\ outcome[c].value.city = CoordLabel

\* C39: a failure that wrapError reports as 'Rate limit exceeded' or as
\* 'Provider service unavailable' is one that isTransientError classifies
\* as transient, whatever the status of the response.
C39_ClassificationAgreesWithMessage ==
    (/\ output.op = "caught"
     /\ output.wrapped.message \in {Canonical("Rate limit exceeded"),
                                    Canonical("Provider service unavailable")})
        => output.transient

----------------------------------------------------------------------------
(* The orchestrator with a fallback, every provider invocation returning   *)
(* or failing in the end                                                   *)

\* OpenWeather first, Open-Meteo as fallback, caching enabled
InitLive ==
    /\ Constructed([provider |-> OPENWEATHER, fallbackProvider |-> OPEN_METEO,
                    apiKey |-> "key",
                    cache |-> [enabled |-> TRUE,
                               ttl |-> [current |-> 1, forecast |-> 2,
                                        geocoding |-> Undefined]]])
    /\ input = NoInput
    /\ output = NoOutput

\* LotusWeather.getCurrentWeather(city)
GetCurrentWeatherOfCity(c) ==
    \E city \in Cities :
        Begin(c, Request("getCurrentWeather", city, 0, 0, FALSE, Undefined))

\* LotusWeather.getWeatherByCoords(coords)
GetWeatherByCoordsOfPoint(c) ==
    \E co \in CoordInputs :
        Begin(c, Request("getWeatherByCoords", <<>>, co.lat, co.lon, FALSE,
                         Undefined))

\* LotusWeather.getForecast(city)
GetForecastOfCity(c) ==
    \E city \in Cities :
        Begin(c, Request("getForecast", city, 0, 0, FALSE, Undefined))

NextLive ==
    \/ \E c \in Calls : GetCurrentWeatherOfCity(c)
    \/ \E c \in Calls : GetWeatherByCoordsOfPoint(c)
    \/ \E c \in Calls : GetForecastOfCity(c)
    \/ \E c \in Calls : PrimarySettles(c)
    \/ \E c \in Calls : FallbackSettles(c)
    \/ \E c \in Calls : Resume(c)
    \/ ClearCache
    \/ Tick

\* the promise of every provider invocation settles (axios resolves or
\* rejects, at the latest on its timeout), and a caller whose promise has
\* settled runs its continuation
SpecLive ==
    /\ InitLive
    /\ [][NextLive]_vars
    /\ \A c \in Calls : WF_vars(PrimarySettles(c))
    /\ \A c \in Calls : WF_vars(FallbackSettles(c))
    /\ \A c \in Calls : WF_vars(Resume(c))

InFlightCall(c) == pc[c] \in {"primary", "fallback"}

\* C40: every call of getCurrentWeather, getWeatherByCoords or getForecast
\* that is waiting for a provider completes in the end, with a result or
\* with a WeatherError, having invoked the primary provider at most once and
\* the fallback provider at most once; while it waits, the answer of its
\* provider is all it needs: whatever the other calls in flight and the
\* cache hold, the step that settles it can be taken.
C40_EveryCallCompletes ==
    /\ [](\A c \in Calls :
            /\ nPrimary[c] <= 1
            /\ nFallback[c] <= 1
            /\ pc[c] = "done"
               => \/ outcome[c].kind = "value"
                  \/ /\ outcome[c].kind = "error"
                     /\ outcome[c].error.type = "WeatherError")
    /\ [](\A c \in Calls :
            (InFlightCall(c) /\ NoneSettled)
                => ENABLED (PrimarySettles(c) \/ FallbackSettles(c)))
    /\ \A c \in Calls : InFlightCall(c) ~> pc[c] = "done"

\* a call completed with a WeatherError after the primary provider and the
\* fallback provider were each invoked once and both failed
C40_Witness ==
    \E c \in Calls :
        /\ pc[c] = "done"
        /\ nPrimary[c] = 1
        /\ nFallback[c] = 1
        /\ outcome[c].kind = "error"
        /\ fbErr[c] # NoErr

====
